---- MODULE Spec2Model ----
(***************************************************************************)
(* Model of the Fate-Unreal-Risk bot (src/bot.py, src/database.py): the    *)
(* economy ledger (currency, summon cost, shop, daily claim, missions) and *)
(* the battle workflow that touches it.  Every command or UI callback runs *)
(* as its own asyncio task; a task is suspended at each awaited database   *)
(* call, so one action of the model is one database statement together     *)
(* with the local code that follows it up to the next awaited statement.   *)
(***************************************************************************)
EXTENDS Integers, FiniteSets, Sequences, TLC

\* ------------------------------------------------------------------ bounds
MaxDay == 1             \* calendar dates explored are 0..MaxDay
MaxOps == 3             \* commands and UI callbacks invoked in one behaviour
MaxTicks == 2            \* clock ticks explored

\* ------------------------------------------------------- program constants
max_turns == 30
k_factor == 32
SummonCostSq == 30
StartSq == 100
StartTickets == 3
DefaultMaxSummons == 1
BattleCooldown == 300
select_timeout == 180    \* SelectServantForBattleView: super().__init__(timeout=180)
NoDate == -1000         \* last_daily_claim IS NULL

\* ------------------------------------------------------------ input domains
Members == {"u1", "u2", "u3", "u4"}
guild_id == "g1"                      \* interaction.guild.id, the community served
OtherGuild == "g2"                    \* another community the bot is installed in
Tasks == {"t1", "t2"}
Days == 0..MaxDay
RollValues == {0, 70}                 \* random.random() * 100 samples
GiveSqInputs == {-50, 0, 50}          \* /givecurrency saint_quartz argument
GiveTicketInputs == {-1, 0, 1}        \* /givecurrency tickets argument
MaxSummonsInputs == {0, 2}            \* /setmaxsummons argument

\* ------------------------------------------------------------------ catalogs
\* initialize_default_items: name -> (item_type, stat_type, stat_value, price)
default_items ==
  [n \in {"Gae Bolg Replica", "Simple Sword", "Leather Armor", "Saint Quartz"} |->
     CASE n = "Gae Bolg Replica" -> [item_type |-> "weapon", stat_type |-> "attack", stat_value |-> 30, price |-> 300]
       [] n = "Simple Sword"  -> [item_type |-> "weapon", stat_type |-> "attack",  stat_value |-> 10, price |-> 50]
       [] n = "Leather Armor" -> [item_type |-> "armor",  stat_type |-> "defense", stat_value |-> 10, price |-> 50]
       [] n = "Saint Quartz"  -> [item_type |-> "currency", stat_type |-> "none",  stat_value |-> 0,  price |-> 0]]

ItemNames == DOMAIN default_items
BuyInputs == {"Simple Sword", "No Such Item"}

\* initialize_default_missions: id -> (mission_type, requirement, sq_reward, ticket_reward)
default_missions ==
  [i \in 1..5 |->
     CASE i = 1 -> [mission_type |-> "battle",     requirement |-> 3, sq_reward |-> 30, ticket_reward |-> 1]
       [] i = 2 -> [mission_type |-> "summon",     requirement |-> 1, sq_reward |-> 20, ticket_reward |-> 1]
       [] i = 3 -> [mission_type |-> "level_up",   requirement |-> 1, sq_reward |-> 25, ticket_reward |-> 0]
       [] i = 4 -> [mission_type |-> "win_streak", requirement |-> 2, sq_reward |-> 40, ticket_reward |-> 2]
       [] i = 5 -> [mission_type |-> "use_item",   requirement |-> 1, sq_reward |-> 15, ticket_reward |-> 0]]

MissionIds == DOMAIN default_missions
MissionTypes == {default_missions[i].mission_type : i \in MissionIds}

\* initialize_default_items: the order of the INSERTs
item_order == <<"Gae Bolg Replica", "Simple Sword", "Leather Armor", "Saint Quartz">>

\* the rows INSERTed into items and daily_missions (id is SERIAL)
ItemRow(id, name) == [id |-> id, name |-> name] @@ default_items[name]
MissionRow(id, i) == [id |-> id] @@ default_missions[i]

\* the two catalogs as the first init_db leaves them
ItemsOnce == {ItemRow(i, item_order[i]) : i \in 1..Len(item_order)}
MissionsOnce == {MissionRow(i, i) : i \in MissionIds}
ClaimInputs == {"summon", "battle", "no_such_mission"}

\* SELECT ... FROM daily_missions WHERE mission_type = $1 (0 when no row)
MissionIdOfType(mission_type) ==
  IF \E i \in MissionIds : default_missions[i].mission_type = mission_type
  THEN CHOOSE i \in MissionIds : default_missions[i].mission_type = mission_type
  ELSE 0

\* ------------------------------------------------------------------- state
VARIABLES
  items,                 \* items table: set of rows
  daily_missions,        \* daily_missions table: set of rows
  users,                 \* users table: member -> row
  max_summons,           \* guilds.max_summons
  summons,               \* summons table: set of rows
  inventory,             \* inventory table: <<member, item>> -> quantity
  equipped_items,        \* equipped_items table: set of rows
  equipped_items_id_seq, \* the SERIAL sequence of equipped_items.id
  user_mission_progress, \* <<member, mission id, reset_date>> -> row
  cooldowns,             \* cooldowns table, action_type "battle": member -> row
  battles,               \* battles table: set of rows
  today,                 \* CURRENT_DATE / datetime.now().date()
  now,                   \* datetime.now(), in seconds
  summon_views,          \* open ServantSelectView dropdowns
  challenge_views,       \* posted BattleChallengeView messages
  battle_views,          \* open SelectServantForBattleView dropdowns
  task,                  \* the running handlers, one per task slot
  ops,                   \* commands and callbacks invoked so far
  daily_granted,         \* history: <<member, date>> -> daily rewards written
  last_reported,         \* history: member -> streak of the last daily claim written
  mission_credited,      \* history: <<member, mission, date>> -> rewards credited
  claim_returned         \* history: keys whose claim has returned a reward

dbVars == <<items, daily_missions, users, max_summons, summons, inventory, equipped_items, equipped_items_id_seq, user_mission_progress,
            cooldowns, battles>>
uiVars == <<summon_views, challenge_views, battle_views>>
clockVars == <<today, now>>
histVars == <<daily_granted, last_reported, mission_credited, claim_returned>>
vars == <<items, daily_missions, users, max_summons, summons, inventory, equipped_items, equipped_items_id_seq, user_mission_progress,
          cooldowns, battles, today, now,
          summon_views, challenge_views, battle_views, task, ops,
          daily_granted, last_reported, mission_credited, claim_returned>>

NoUserRow == [exists |-> FALSE, is_registered |-> FALSE,
              saint_quartz |-> 0, summon_tickets |-> 0,
              last_daily_claim |-> NoDate,
              current_streak |-> 0, longest_streak |-> 0,
              elo_rating |-> 1000, battle_wins |-> 0, battle_losses |-> 0]

\* register_user: INSERT INTO users (... is_registered, saint_quartz, summon_tickets) VALUES (TRUE, 100, 3)
NewUserRow == [NoUserRow EXCEPT !.exists = TRUE, !.is_registered = TRUE,
                                !.saint_quartz = StartSq, !.summon_tickets = StartTickets]

NoProgressRow == [exists |-> FALSE, progress |-> 0,
                  completed |-> FALSE, claimed |-> FALSE]

NoCooldownRow == [exists |-> FALSE, expires_at |-> 0]

ProgressKeys == Members \X MissionIds \X Days

\* the locals of simulate_battle before the call
NoStats == [id |-> 0, level |-> 0, attack |-> 0, defense |-> 0, hp |-> 0, speed |-> 0]
NoSim == [s1 |-> NoStats, s2 |-> NoStats, s1_current_hp |-> 0, s2_current_hp |-> 0,
          turn |-> 0, attacker |-> 0, winner |-> 0, first |-> 0, plain |-> TRUE]

Idle == [op |-> "none", pc |-> "idle", user |-> "nobody", result |-> "none",
         item |-> "none", mission_id |-> 0, max_summons |-> 0,
         cur_sq |-> 0, cur_tk |-> 0, rank |-> "none",
         last_claim |-> NoDate, now_date |-> NoDate, streak |-> 0,
         sq_reward |-> 0, ticket_reward |-> 0,
         opponent |-> "nobody", servant_id |-> 0, opponent_servant_id |-> 0,
         winner_id |-> "nobody", battle_id |-> 0, mission_user |-> "nobody",
         cutoff |-> 0, sim |-> NoSim,
         winner_elo |-> 0, loser_elo |-> 0, elo_change |-> 0,
         exp_gained |-> 0, current_level |-> 0, new_exp |-> 0, levels_gained |-> 0,
         existing |-> 0, attack_before |-> 0, k |-> 0]

Free(t) == task[t].pc \in {"idle", "done"}
At(t, op, pc) == task[t].op = op /\ task[t].pc = pc

\* a new command or callback is dispatched to a free task slot
Invoke(t) == Free(t) /\ ops < MaxOps /\ ops' = ops + 1

Begin(t, op, m, pc) ==
  task' = [task EXCEPT ![t] = [Idle EXCEPT !.op = op, !.pc = pc, !.user = m]]
Reject(t, op, m, res) ==
  task' = [task EXCEPT ![t] = [Idle EXCEPT !.op = op, !.pc = "done", !.user = m, !.result = res]]
Finish(t, res) ==
  task' = [task EXCEPT ![t] = [@ EXCEPT !.pc = "done", !.result = res]]

dbExceptUsers == <<items, daily_missions, max_summons, summons, inventory, equipped_items, equipped_items_id_seq, user_mission_progress, cooldowns, battles>>
dbExceptProgress == <<items, daily_missions, users, max_summons, summons, inventory, equipped_items, equipped_items_id_seq, cooldowns, battles>>
readOnly == <<dbVars, clockVars, uiVars, histVars>>

\* ------------------------------------------------------ database functions
is_user_registered(m) == users[m].exists /\ users[m].is_registered

get_user_currency(m) ==
  IF users[m].exists
  THEN [sq |-> users[m].saint_quartz, tickets |-> users[m].summon_tickets]
  ELSE [sq |-> 0, tickets |-> 0]

\* UPDATE users SET saint_quartz = saint_quartz + $1, summon_tickets = summon_tickets + $2
update_user_currency(m, sq_change, tickets_change) ==
  users' = IF users[m].exists
           THEN [users EXCEPT ![m].saint_quartz = @ + sq_change,
                              ![m].summon_tickets = @ + tickets_change]
           ELSE users

get_user_summons(m) == {s \in summons : s.user_id = m /\ s.guild_id = guild_id}

\* SELECT max_summons FROM guilds; return result if result else 1
get_max_summons == IF max_summons # 0 THEN max_summons ELSE 1

\* ----------------------------------------------------------- registration
\* RegistrationView.register_button: is_user_registered
RegisterBegin(t, m) ==
  /\ Invoke(t)
  /\ IF is_user_registered(m)
     THEN Reject(t, "register", m, "already_registered")
     ELSE Begin(t, "register", m, "register_user")
  /\ UNCHANGED readOnly

\* register_user: INSERT ... ON CONFLICT (user_id, guild_id) DO UPDATE SET is_registered = TRUE
RegisterUser(t) ==
  /\ At(t, "register", "register_user")
  /\ LET m == task[t].user IN
       users' = IF users[m].exists
                THEN [users EXCEPT ![m].is_registered = TRUE]
                ELSE [users EXCEPT ![m] = NewUserRow]
  /\ Finish(t, "registered")
  /\ UNCHANGED <<dbExceptUsers, clockVars, uiVars, histVars, ops>>

\* ------------------------------------------------------------ /summon
\* summon: is_user_registered
SummonBegin(t, m) ==
  /\ Invoke(t)
  /\ IF is_user_registered(m)
     THEN Begin(t, "summon", m, "get_max_summons")
     ELSE Reject(t, "summon", m, "not_registered")
  /\ UNCHANGED readOnly

\* summon: max_summons = await db.get_max_summons(...)
SummonGetMax(t) ==
  /\ At(t, "summon", "get_max_summons")
  /\ task' = [task EXCEPT ![t].max_summons = get_max_summons,
                          ![t].pc = "get_user_summons"]
  /\ UNCHANGED <<readOnly, ops>>

\* summon: the servant limit, len(current_summons) >= max_summons
LimitReached(current_summons, limit) == Cardinality(current_summons) >= limit

\* summon: current_summons = await db.get_user_summons(...); limit check
SummonGetSummons(t) ==
  /\ At(t, "summon", "get_user_summons")
  /\ IF LimitReached(get_user_summons(task[t].user), task[t].max_summons)
     THEN Finish(t, "limit_reached")
     ELSE task' = [task EXCEPT ![t].pc = "get_user_currency"]
  /\ UNCHANGED <<readOnly, ops>>

\* the funds check with the SQ threshold lost: any non-negative balance passes
SummonCostUnchecked(currency) ==
  IF currency.tickets > 0 THEN "ticket"
  ELSE IF currency.sq >= 0 THEN "sq"
  ELSE "insufficient"

\* summon: the branch taken on the currency read (1 ticket, else 30 SQ, else rejected)
SummonCost(currency) ==
  IF currency.tickets > 0 THEN "ticket"
  ELSE IF currency.sq >= SummonCostSq THEN "sq"
  ELSE "insufficient"

\* summon: currency = await db.get_user_currency(...); choice of the cost
SummonGetCurrency(t) ==
  /\ At(t, "summon", "get_user_currency")
  /\ LET currency == get_user_currency(task[t].user)
         broke == SummonCost(currency) = "insufficient"
     IN task' = [task EXCEPT ![t].cur_sq = currency.sq,
                             ![t].cur_tk = currency.tickets,
                             ![t].pc = IF broke THEN "done" ELSE "pay",
                             ![t].result = IF broke THEN "insufficient" ELSE "none"]
  /\ UNCHANGED <<readOnly, ops>>

Ranks == {"EX", "S", "A", "B", "C"}

\* gacha rates: roll < 1 EX, < 6 S, < 21 A, < 51 B, else C
RankOfRoll(roll) ==
  IF roll < 1 THEN "EX"
  ELSE IF roll < 6 THEN "S"
  ELSE IF roll < 21 THEN "A"
  ELSE IF roll < 51 THEN "B"
  ELSE "C"

\* the charge with the ticket branch falling through into the SQ branch
SummonChargeBoth(cost) ==
  IF cost = "ticket" THEN [sq |-> -SummonCostSq, tickets |-> -1]
  ELSE [sq |-> -SummonCostSq, tickets |-> 0]

\* summon: the amounts handed to update_user_currency for the cost chosen
SummonCharge(cost) ==
  IF cost = "ticket" THEN [sq |-> 0, tickets |-> -1]
  ELSE [sq |-> -SummonCostSq, tickets |-> 0]

\* summon: update_user_currency(0, -1) or (-30, 0); roll; open the dropdown
SummonPay(t, roll) ==
  /\ At(t, "summon", "pay")
  /\ LET m == task[t].user
         cost == SummonCost([sq |-> task[t].cur_sq, tickets |-> task[t].cur_tk])
     IN /\ update_user_currency(m, SummonCharge(cost).sq, SummonCharge(cost).tickets)
        /\ summon_views' = summon_views \cup {[user |-> m, rank |-> RankOfRoll(roll)]}
        /\ Finish(t, IF cost = "ticket" THEN "paid_ticket" ELSE "paid_sq")
  /\ UNCHANGED <<dbExceptUsers, clockVars, challenge_views, battle_views, histVars, ops>>

\* ------------------------------------------------------ mission progress
\* the mission type a handler passes to update_mission_progress(user, type, 1)
MissionTypeOf(op) ==
  CASE op = "select" -> "summon"
    [] op = "battle_select" -> "battle"
    [] op = "equip" -> "use_item"
    [] OTHER -> "none"

\* update_mission_progress: SELECT id, requirement FROM daily_missions WHERE mission_type = $1
\* (every caller calls it last: the handler ends when it returns)
UpdateMissionBegin(t) ==
  /\ task[t].pc = "update_mission_progress"
  /\ IF MissionIdOfType(MissionTypeOf(task[t].op)) = 0
     THEN Finish(t, "ok")
     ELSE task' = [task EXCEPT ![t].pc = "mission_upsert",
                               ![t].mission_id = MissionIdOfType(MissionTypeOf(task[t].op))]
  /\ UNCHANGED <<readOnly, ops>>

\* INSERT ... VALUES (.., 1, CURRENT_DATE) ON CONFLICT DO UPDATE SET progress = progress + 1
UpdateMissionUpsert(t) ==
  /\ task[t].pc = "mission_upsert"
  /\ LET k == <<task[t].mission_user, task[t].mission_id, today>> IN
       user_mission_progress' =
         IF user_mission_progress[k].exists
         THEN [user_mission_progress EXCEPT ![k].progress = @ + 1]
         ELSE [user_mission_progress EXCEPT ![k] = [NoProgressRow EXCEPT !.exists = TRUE, !.progress = 1]]
  /\ task' = [task EXCEPT ![t].pc = "mission_check"]
  /\ UNCHANGED <<dbExceptProgress, clockVars, uiVars, histVars, ops>>

\* SELECT progress ... WHERE reset_date = CURRENT_DATE; current_progress >= requirement
\* (no row for the new date after midnight: None >= int raises and the handler dies)
UpdateMissionCheck(t) ==
  /\ task[t].pc = "mission_check"
  /\ LET row == user_mission_progress[<<task[t].mission_user, task[t].mission_id, today>>]
     IN IF ~row.exists THEN Finish(t, "error")
        ELSE IF row.progress >= default_missions[task[t].mission_id].requirement
        THEN task' = [task EXCEPT ![t].pc = "mission_complete"]
        ELSE Finish(t, "ok")
  /\ UNCHANGED <<readOnly, ops>>

\* UPDATE user_mission_progress SET completed = TRUE WHERE ... reset_date = CURRENT_DATE
UpdateMissionComplete(t) ==
  /\ task[t].pc = "mission_complete"
  /\ LET k == <<task[t].mission_user, task[t].mission_id, today>> IN
       user_mission_progress' =
         IF user_mission_progress[k].exists
         THEN [user_mission_progress EXCEPT ![k].completed = TRUE]
         ELSE user_mission_progress
  /\ Finish(t, "ok")
  /\ UNCHANGED <<dbExceptProgress, clockVars, uiVars, histVars, ops>>

\* ------------------------------------------------ the summoning dropdown
\* ServantSelect.callback: owner check, is_user_registered
SelectBegin(t, view, clicker) ==
  /\ Invoke(t)
  /\ view \in summon_views
  /\ IF clicker # view.user THEN Reject(t, "select", clicker, "not_yours")
     ELSE IF ~is_user_registered(clicker) THEN Reject(t, "select", clicker, "not_registered")
     ELSE task' = [task EXCEPT ![t] = [Idle EXCEPT !.op = "select", !.pc = "add_summon",
                                                   !.user = clicker, !.mission_user = clicker,
                                                   !.rank = view.rank]]
  /\ UNCHANGED readOnly

\* the multiplier table with every tier at the default
rank_multipliers_flat(rank) == 10

\* add_summon: rank_multipliers, in tenths; rank_multipliers.get(rank, 1.0)
rank_multipliers(rank) ==
  CASE rank = "EX" -> 20
    [] rank = "S" -> 16
    [] rank = "A" -> 13
    [] rank = "B" -> 10
    [] rank = "C" -> 7
    [] OTHER -> 10

\* add_summon: the summons row INSERTed for a servant of the given rank:
\* base_attack = base_defense = int(100 * multiplier), base_hp = int(1000 * multiplier),
\* base_speed = int(50 * multiplier); the other columns take their defaults
SummonRow(id, m, rank) ==
  [id |-> id, user_id |-> m, guild_id |-> guild_id, servant_rank |-> rank,
   level |-> 1, experience |-> 0,
   base_attack |-> (100 * rank_multipliers(rank)) \div 10,
   base_defense |-> (100 * rank_multipliers(rank)) \div 10,
   base_hp |-> (1000 * rank_multipliers(rank)) \div 10,
   base_speed |-> (50 * rank_multipliers(rank)) \div 10,
   bonus_attack |-> 0, bonus_defense |-> 0, bonus_hp |-> 0, bonus_speed |-> 0,
   total_battles |-> 0, battles_won |-> 0]

\* add_summon: INSERT INTO users (.., 0, 0) ON CONFLICT DO NOTHING;
\* INSERT INTO summons ... RETURNING id (SERIAL)
AddSummon(t) ==
  /\ At(t, "select", "add_summon")
  /\ users' = IF users[task[t].user].exists THEN users
              ELSE [users EXCEPT ![task[t].user] = [NoUserRow EXCEPT !.exists = TRUE]]
  /\ summons' = summons \cup {SummonRow(Cardinality(summons) + 1, task[t].user, task[t].rank)}
  /\ task' = [task EXCEPT ![t].pc = "update_mission_progress"]
  /\ UNCHANGED <<items, daily_missions, max_summons, inventory, equipped_items, equipped_items_id_seq, user_mission_progress, cooldowns, battles,
                 clockVars, uiVars, histVars, ops>>
\* ------------------------------------------------------------------ /buy
\* buy: is_user_registered
BuyBegin(t, m, item_name) ==
  /\ Invoke(t)
  /\ IF is_user_registered(m)
     THEN task' = [task EXCEPT ![t] = [Idle EXCEPT !.op = "buy", !.pc = "get_item_by_name",
                                                   !.user = m, !.item = item_name]]
     ELSE Reject(t, "buy", m, "not_registered")
  /\ UNCHANGED readOnly

\* buy: item = await db.get_item_by_name(item_name)
BuyGetItem(t) ==
  /\ At(t, "buy", "get_item_by_name")
  /\ IF task[t].item \in ItemNames
     THEN task' = [task EXCEPT ![t].pc = "get_user_currency"]
     ELSE Finish(t, "item_not_found")
  /\ UNCHANGED <<readOnly, ops>>

\* buy: the funds check, currency['sq'] < item['price'] rejects
CanAfford(currency, price) == ~(currency.sq < price)

\* buy: currency = await db.get_user_currency(...); price check
BuyGetCurrency(t) ==
  /\ At(t, "buy", "get_user_currency")
  /\ LET currency == get_user_currency(task[t].user)
         ok == CanAfford(currency, default_items[task[t].item].price)
     IN task' = [task EXCEPT ![t].cur_sq = currency.sq,
                             ![t].cur_tk = currency.tickets,
                             ![t].pc = IF ok THEN "pay" ELSE "done",
                             ![t].result = IF ok THEN "none" ELSE "insufficient"]
  /\ UNCHANGED <<readOnly, ops>>

\* buy: update_user_currency(-item['price'], 0)
BuyPay(t) ==
  /\ At(t, "buy", "pay")
  /\ update_user_currency(task[t].user, -default_items[task[t].item].price, 0)
  /\ task' = [task EXCEPT ![t].pc = "add_item_to_inventory"]
  /\ UNCHANGED <<dbExceptUsers, clockVars, uiVars, histVars, ops>>

\* buy: add_item_to_inventory: INSERT ... ON CONFLICT DO UPDATE SET quantity = quantity + 1
BuyAddItem(t) ==
  /\ At(t, "buy", "add_item_to_inventory")
  /\ inventory' = [inventory EXCEPT ![<<task[t].user, task[t].item>>] = @ + 1]
  /\ Finish(t, "bought")
  /\ UNCHANGED <<items, daily_missions, users, max_summons, summons, equipped_items, equipped_items_id_seq, user_mission_progress, cooldowns, battles,
                 clockVars, uiVars, histVars, ops>>

\* ----------------------------------------------------------- admin commands
\* givecurrency: rejected when both amounts are 0, else update_user_currency
GiveCurrency(t, m, saint_quartz, tickets) ==
  /\ Invoke(t)
  /\ IF saint_quartz = 0 /\ tickets = 0
     THEN /\ Reject(t, "givecurrency", m, "nothing_to_give")
          /\ UNCHANGED users
     ELSE /\ update_user_currency(m, saint_quartz, tickets)
          /\ Reject(t, "givecurrency", m, "given")
  /\ UNCHANGED <<dbExceptUsers, clockVars, uiVars, histVars>>

\* setmaxsummons: rejected below 1, else UPDATE guilds SET max_summons
SetMaxSummons(t, n) ==
  /\ Invoke(t)
  /\ IF n < 1
     THEN /\ Reject(t, "setmaxsummons", "nobody", "too_small")
          /\ UNCHANGED max_summons
     ELSE /\ max_summons' = n
          /\ Reject(t, "setmaxsummons", "nobody", "set")
  /\ UNCHANGED <<items, daily_missions, users, summons, inventory, equipped_items, equipped_items_id_seq, user_mission_progress, cooldowns, battles,
                 clockVars, uiVars, histVars>>

\* -------------------------------------------------------- /claimmission
\* claimmission: is_user_registered
ClaimBegin(t, m, mission_type) ==
  /\ Invoke(t)
  /\ IF is_user_registered(m)
     THEN task' = [task EXCEPT ![t] = [Idle EXCEPT !.op = "claimmission", !.pc = "get_daily_missions",
                                                   !.user = m, !.item = mission_type]]
     ELSE Reject(t, "claimmission", m, "not_registered")
  /\ UNCHANGED readOnly

\* claimmission: missions = await db.get_daily_missions(); next(m for m in missions if type matches)
ClaimGetMissions(t) ==
  /\ At(t, "claimmission", "get_daily_missions")
  /\ IF MissionIdOfType(task[t].item) = 0
     THEN Finish(t, "mission_not_found")
     ELSE task' = [task EXCEPT ![t].mission_id = MissionIdOfType(task[t].item),
                               ![t].pc = "claim_read"]
  /\ UNCHANGED <<readOnly, ops>>

\* the row filter without the claimed = FALSE condition
ClaimableIgnoringClaimed(row) == row.exists /\ row.completed

\* claim_mission_reward: the row selected has completed = TRUE AND claimed = FALSE
Claimable(row) == row.exists /\ row.completed /\ ~row.claimed

\* claim_mission_reward: SELECT * FROM user_mission_progress WHERE ... reset_date = CURRENT_DATE ...
ClaimRead(t) ==
  /\ At(t, "claimmission", "claim_read")
  /\ IF Claimable(user_mission_progress[<<task[t].user, task[t].mission_id, today>>])
     THEN task' = [task EXCEPT ![t].now_date = today, ![t].pc = "claim_get_reward"]
     ELSE task' = [task EXCEPT ![t].now_date = today, ![t].pc = "done",
                               ![t].result = "not_claimable"]
  /\ UNCHANGED <<readOnly, ops>>

\* claim_mission_reward: SELECT sq_reward, ticket_reward FROM daily_missions WHERE id = $1
ClaimGetReward(t) ==
  /\ At(t, "claimmission", "claim_get_reward")
  /\ task' = [task EXCEPT ![t].sq_reward = default_missions[task[t].mission_id].sq_reward,
                          ![t].ticket_reward = default_missions[task[t].mission_id].ticket_reward,
                          ![t].pc = "claim_pay"]
  /\ UNCHANGED <<readOnly, ops>>

\* claim_mission_reward: await update_user_currency(user, sq_reward, ticket_reward)
ClaimPay(t) ==
  /\ At(t, "claimmission", "claim_pay")
  /\ update_user_currency(task[t].user, task[t].sq_reward, task[t].ticket_reward)
  /\ mission_credited' =
       [mission_credited EXCEPT ![<<task[t].user, task[t].mission_id, task[t].now_date>>] = @ + 1]
  /\ task' = [task EXCEPT ![t].pc = "claim_mark"]
  /\ UNCHANGED <<dbExceptUsers, clockVars, uiVars, ops,
                 daily_granted, last_reported, claim_returned>>

\* claim_mission_reward: UPDATE ... SET claimed = TRUE WHERE ... reset_date = CURRENT_DATE
ClaimMark(t) ==
  /\ At(t, "claimmission", "claim_mark")
  /\ LET k == <<task[t].user, task[t].mission_id, today>> IN
       user_mission_progress' =
         IF user_mission_progress[k].exists
         THEN [user_mission_progress EXCEPT ![k].claimed = TRUE]
         ELSE user_mission_progress
  /\ claim_returned' = claim_returned \cup {<<task[t].user, task[t].mission_id, task[t].now_date>>}
  /\ Finish(t, "claimed")
  /\ UNCHANGED <<dbExceptProgress, clockVars, uiVars, ops,
                 daily_granted, last_reported, mission_credited>>

\* ---------------------------------------------------------------- /daily
\* daily: is_user_registered
DailyBegin(t, m) ==
  /\ Invoke(t)
  /\ IF is_user_registered(m)
     THEN Begin(t, "daily", m, "read_last_claim")
     ELSE Reject(t, "daily", m, "not_registered")
  /\ UNCHANGED readOnly

\* the same-day check comparing timestamps instead of dates: a later time never matches
ClaimedTodayByTimestamp(last_claim, now_date) == last_claim # NoDate /\ last_claim > now_date

\* claim_daily_reward: last_claim and last_claim.date() == now.date()
ClaimedToday(last_claim, now_date) == last_claim # NoDate /\ last_claim = now_date

\* claim_daily_reward: SELECT last_daily_claim; now = datetime.now(); already claimed today?
DailyReadLastClaim(t) ==
  /\ At(t, "daily", "read_last_claim")
  /\ LET last_claim == users[task[t].user].last_daily_claim
         already == ClaimedToday(last_claim, today)
     IN task' = [task EXCEPT ![t].last_claim = last_claim,
                             ![t].now_date = today,
                             ![t].pc = IF already THEN "done" ELSE "read_streak",
                             ![t].result = IF already THEN "already_claimed" ELSE "none"]
  /\ UNCHANGED <<readOnly, ops>>

\* the streak rule without the restart branch
NextStreakNoRestart(streak, last_claim, now_date) ==
  IF last_claim # NoDate /\ now_date - last_claim >= 1 THEN streak + 1
  ELSE IF last_claim = NoDate THEN 1
  ELSE streak

\* claim_daily_reward: the streak continues (claimed yesterday) or restarts
NextStreak(streak, last_claim, now_date) ==
  IF last_claim # NoDate /\ now_date - last_claim = 1 THEN streak + 1
  ELSE IF last_claim = NoDate \/ now_date - last_claim > 1 THEN 1
  ELSE streak

Min(a, b) == IF a < b THEN a ELSE b
Max(a, b) == IF a > b THEN a ELSE b

\* the reward without the 7-day cap
DailySqRewardUncapped(streak) == 30 + (streak * 5)

\* sq_reward = 30 + (min(streak, 7) * 5)
DailySqReward(streak) == 30 + (Min(streak, 7) * 5)
\* ticket_reward = 1 if streak % 3 == 0 else 0
DailyTicketReward(streak) == IF streak % 3 = 0 THEN 1 ELSE 0

\* claim_daily_reward: SELECT current_streak ... or 0; streak and rewards
DailyReadStreak(t) ==
  /\ At(t, "daily", "read_streak")
  /\ LET streak == NextStreak(users[task[t].user].current_streak,
                              task[t].last_claim, task[t].now_date)
     IN task' = [task EXCEPT ![t].streak = streak,
                             ![t].sq_reward = DailySqReward(streak),
                             ![t].ticket_reward = DailyTicketReward(streak),
                             ![t].pc = "daily_update"]
  /\ UNCHANGED <<readOnly, ops>>

\* the watermark left where it was
LongestStreakKept(longest_streak, streak) == longest_streak

\* claim_daily_reward: longest_streak = GREATEST(longest_streak, $4)
LongestStreak(longest_streak, streak) == Max(longest_streak, streak)

\* claim_daily_reward: UPDATE users SET saint_quartz = saint_quartz + $1, summon_tickets = ... + $2,
\* last_daily_claim = $3, current_streak = $4, longest_streak = GREATEST(longest_streak, $4)
DailyUpdate(t) ==
  /\ At(t, "daily", "daily_update")
  /\ LET m == task[t].user IN
       /\ users' = IF users[m].exists
                   THEN [users EXCEPT ![m].saint_quartz = @ + task[t].sq_reward,
                                      ![m].summon_tickets = @ + task[t].ticket_reward,
                                      ![m].last_daily_claim = task[t].now_date,
                                      ![m].current_streak = task[t].streak,
                                      ![m].longest_streak = LongestStreak(@, task[t].streak)]
                   ELSE users
       /\ daily_granted' = [daily_granted EXCEPT ![<<m, task[t].now_date>>] = @ + 1]
       /\ last_reported' = [last_reported EXCEPT ![m] = task[t].streak]
  /\ Finish(t, "claimed")
  /\ UNCHANGED <<dbExceptUsers, clockVars, uiVars, ops, mission_credited, claim_returned>>

\* ------------------------------------------------------ calculate_elo_change
\* users.elo_rating values: the default 1000 and ratings above it
EloRatings == {1000 + 100 * k : k \in 0..10}

\* 10 ** (d / 400) in units of 1/10000, for d = -300, -299, ..., 750
Pow10Table ==
  <<
    1778, 1789, 1799, 1809, 1820, 1830, 1841, 1851, 1862, 1873, 1884, 1895,
    1905, 1916, 1928, 1939, 1950, 1961, 1972, 1984, 1995, 2007, 2018, 2030,
    2042, 2054, 2065, 2077, 2089, 2101, 2113, 2126, 2138, 2150, 2163, 2175,
    2188, 2200, 2213, 2226, 2239, 2252, 2265, 2278, 2291, 2304, 2317, 2331,
    2344, 2358, 2371, 2385, 2399, 2413, 2427, 2441, 2455, 2469, 2483, 2497,
    2512, 2526, 2541, 2556, 2570, 2585, 2600, 2615, 2630, 2645, 2661, 2676,
    2692, 2707, 2723, 2738, 2754, 2770, 2786, 2802, 2818, 2835, 2851, 2867,
    2884, 2901, 2917, 2934, 2951, 2968, 2985, 3003, 3020, 3037, 3055, 3073,
    3090, 3108, 3126, 3144, 3162, 3181, 3199, 3217, 3236, 3255, 3273, 3292,
    3311, 3330, 3350, 3369, 3388, 3408, 3428, 3447, 3467, 3487, 3508, 3528,
    3548, 3569, 3589, 3610, 3631, 3652, 3673, 3694, 3715, 3737, 3758, 3780,
    3802, 3824, 3846, 3868, 3890, 3913, 3936, 3958, 3981, 4004, 4027, 4050,
    4074, 4097, 4121, 4145, 4169, 4193, 4217, 4241, 4266, 4290, 4315, 4340,
    4365, 4390, 4416, 4441, 4467, 4493, 4519, 4545, 4571, 4597, 4624, 4651,
    4677, 4704, 4732, 4759, 4786, 4814, 4842, 4870, 4898, 4926, 4955, 4983,
    5012, 5041, 5070, 5099, 5129, 5158, 5188, 5218, 5248, 5278, 5309, 5339,
    5370, 5401, 5433, 5464, 5495, 5527, 5559, 5591, 5623, 5656, 5689, 5721,
    5754, 5788, 5821, 5855, 5888, 5922, 5957, 5991, 6026, 6060, 6095, 6131,
    6166, 6202, 6237, 6273, 6310, 6346, 6383, 6419, 6457, 6494, 6531, 6569,
    6607, 6645, 6683, 6722, 6761, 6800, 6839, 6879, 6918, 6958, 6998, 7039,
    7079, 7120, 7161, 7203, 7244, 7286, 7328, 7371, 7413, 7456, 7499, 7542,
    7586, 7630, 7674, 7718, 7762, 7807, 7852, 7898, 7943, 7989, 8035, 8082,
    8128, 8175, 8222, 8270, 8318, 8366, 8414, 8463, 8511, 8561, 8610, 8660,
    8710, 8760, 8810, 8861, 8913, 8964, 9016, 9068, 9120, 9173, 9226, 9279,
    9333, 9386, 9441, 9495, 9550, 9605, 9661, 9716, 9772, 9829, 9886, 9943,
    10000, 10058, 10116, 10174, 10233, 10292, 10351, 10411, 10471, 10532, 10593, 10654,
    10715, 10777, 10839, 10902, 10965, 11028, 11092, 11156, 11220, 11285, 11350, 11416,
    11482, 11548, 11614, 11682, 11749, 11817, 11885, 11954, 12023, 12092, 12162, 12232,
    12303, 12374, 12445, 12517, 12589, 12662, 12735, 12809, 12882, 12957, 13032, 13107,
    13183, 13259, 13335, 13412, 13490, 13568, 13646, 13725, 13804, 13884, 13964, 14044,
    14125, 14207, 14289, 14371, 14454, 14538, 14622, 14706, 14791, 14876, 14962, 15049,
    15136, 15223, 15311, 15399, 15488, 15578, 15668, 15758, 15849, 15940, 16032, 16125,
    16218, 16312, 16406, 16501, 16596, 16692, 16788, 16885, 16982, 17080, 17179, 17278,
    17378, 17478, 17579, 17681, 17783, 17885, 17989, 18093, 18197, 18302, 18408, 18514,
    18621, 18728, 18836, 18945, 19055, 19165, 19275, 19387, 19498, 19611, 19724, 19838,
    19953, 20068, 20184, 20300, 20417, 20535, 20654, 20773, 20893, 21014, 21135, 21257,
    21380, 21503, 21627, 21752, 21878, 22004, 22131, 22259, 22387, 22516, 22646, 22777,
    22909, 23041, 23174, 23308, 23442, 23578, 23714, 23851, 23988, 24127, 24266, 24406,
    24547, 24689, 24831, 24975, 25119, 25264, 25410, 25556, 25704, 25852, 26002, 26152,
    26303, 26455, 26607, 26761, 26915, 27071, 27227, 27384, 27542, 27701, 27861, 28022,
    28184, 28347, 28510, 28675, 28840, 29007, 29174, 29343, 29512, 29682, 29854, 30026,
    30200, 30374, 30549, 30726, 30903, 31081, 31261, 31441, 31623, 31805, 31989, 32174,
    32359, 32546, 32734, 32923, 33113, 33304, 33497, 33690, 33884, 34080, 34277, 34475,
    34674, 34874, 35075, 35278, 35481, 35686, 35892, 36099, 36308, 36517, 36728, 36940,
    37154, 37368, 37584, 37801, 38019, 38238, 38459, 38681, 38905, 39129, 39355, 39582,
    39811, 40041, 40272, 40504, 40738, 40973, 41210, 41448, 41687, 41928, 42170, 42413,
    42658, 42904, 43152, 43401, 43652, 43904, 44157, 44412, 44668, 44926, 45186, 45446,
    45709, 45973, 46238, 46505, 46774, 47044, 47315, 47588, 47863, 48139, 48417, 48697,
    48978, 49261, 49545, 49831, 50119, 50408, 50699, 50992, 51286, 51582, 51880, 52180,
    52481, 52784, 53088, 53395, 53703, 54013, 54325, 54639, 54954, 55271, 55590, 55911,
    56234, 56559, 56885, 57214, 57544, 57876, 58210, 58546, 58884, 59224, 59566, 59910,
    60256, 60604, 60954, 61306, 61660, 62015, 62373, 62734, 63096, 63460, 63826, 64195,
    64565, 64938, 65313, 65690, 66069, 66451, 66834, 67220, 67608, 67999, 68391, 68786,
    69183, 69582, 69984, 70388, 70795, 71203, 71614, 72028, 72444, 72862, 73282, 73706,
    74131, 74559, 74989, 75422, 75858, 76296, 76736, 77179, 77625, 78073, 78524, 78977,
    79433, 79891, 80353, 80816, 81283, 81752, 82224, 82699, 83176, 83657, 84140, 84625,
    85114, 85605, 86099, 86596, 87096, 87599, 88105, 88614, 89125, 89640, 90157, 90678,
    91201, 91728, 92257, 92790, 93325, 93864, 94406, 94951, 95499, 96051, 96605, 97163,
    97724, 98288, 98855, 99426, 100000, 100577, 101158, 101742, 102329, 102920, 103514, 104112,
    104713, 105317, 105925, 106537, 107152, 107771, 108393, 109018, 109648, 110281, 110917, 111558,
    112202, 112850, 113501, 114156, 114815, 115478, 116145, 116815, 117490, 118168, 118850, 119536,
    120226, 120921, 121619, 122321, 123027, 123737, 124451, 125170, 125893, 126619, 127350, 128086,
    128825, 129569, 130317, 131069, 131826, 132587, 133352, 134122, 134896, 135675, 136458, 137246,
    138038, 138835, 139637, 140443, 141254, 142069, 142889, 143714, 144544, 145378, 146218, 147062,
    147911, 148765, 149624, 150487, 151356, 152230, 153109, 153993, 154882, 155776, 156675, 157580,
    158489, 159404, 160325, 161250, 162181, 163117, 164059, 165006, 165959, 166917, 167880, 168850,
    169824, 170805, 171791, 172783, 173780, 174783, 175792, 176807, 177828, 178855, 179887, 180926,
    181970, 183021, 184077, 185140, 186209, 187284, 188365, 189452, 190546, 191646, 192752, 193865,
    194984, 196110, 197242, 198381, 199526, 200678, 201837, 203002, 204174, 205353, 206538, 207730,
    208930, 210136, 211349, 212569, 213796, 215030, 216272, 217520, 218776, 220039, 221309, 222587,
    223872, 225165, 226464, 227772, 229087, 230409, 231739, 233077, 234423, 235776, 237137, 238506,
    239883, 241268, 242661, 244062, 245471, 246888, 248313, 249747, 251189, 252639, 254097, 255564,
    257040, 258523, 260016, 261517, 263027, 264545, 266073, 267609, 269153, 270707, 272270, 273842,
    275423, 277013, 278612, 280221, 281838, 283465, 285102, 286748, 288403, 290068, 291743, 293427,
    295121, 296825, 298538, 300262, 301995, 303739, 305492, 307256, 309030, 310814, 312608, 314413,
    316228, 318053, 319890, 321736, 323594, 325462, 327341, 329230, 331131, 333043, 334965, 336899,
    338844, 340800, 342768, 344747, 346737, 348739, 350752, 352777, 354813, 356862, 358922, 360994,
    363078, 365174, 367282, 369403, 371535, 373680, 375837, 378007, 380189, 382384, 384592, 386812,
    389045, 391291, 393550, 395822, 398107, 400405, 402717, 405042, 407380, 409732, 412098, 414477,
    416869, 419276, 421697, 424131, 426580, 429042, 431519, 434010, 436516, 439036, 441570, 444120,
    446684, 449262, 451856, 454465, 457088, 459727, 462381, 465050, 467735, 470435, 473151, 475883,
    478630, 481393, 484172, 486968, 489779, 492606, 495450, 498310, 501187, 504081, 506991, 509918,
    512861, 515822, 518800, 521795, 524807, 527837, 530884, 533949, 537032, 540132, 543250, 546387,
    549541, 552713, 555904, 559114, 562341, 565588, 568853, 572137, 575440, 578762, 582103, 585464,
    588844, 592243, 595662, 599101, 602560, 606038, 609537, 613056, 616595, 620155, 623735, 627336,
    630957, 634600, 638263, 641948, 645654, 649382, 653131, 656901, 660693, 664508, 668344, 672202,
    676083, 679986, 683912, 687860, 691831, 695825, 699842, 703882, 707946, 712033, 716143, 720278,
    724436, 728618, 732825, 737055, 741310, 745590, 749894>>

\* 10 ** ((loser_elo - winner_elo) / 400); below -300 and above 750 the value
\* at the end of the table stands for it: k_factor * (1 - expected_score) is
\* then below 5.5 or above 31.5 and its integer part and nearest integer no
\* longer change
Pow10(d) == Pow10Table[Max(-300, Min(750, d)) + 301]

\* calculate_elo_change: expected_score = 1 / (1 + 10 ** ((loser_elo - winner_elo) / 400));
\* return max(int(k_factor * (1 - expected_score)), 5); with p = 10 ** (...),
\* k_factor * (1 - 1 / (1 + p)) = k_factor * p / (1 + p), and int() truncates
calculate_elo_change(winner_elo, loser_elo) ==
  LET p == Pow10(loser_elo - winner_elo)
  IN Max((k_factor * p) \div (10000 + p), 5)

\* callback: elo_change = calculate_elo_change(winner's elo_rating, loser's elo_rating)
EloCall(t) ==
  /\ At(t, "calculate_elo_change", "call")
  /\ task' = [task EXCEPT ![t].pc = "done", ![t].result = "returned",
                          ![t].elo_change = calculate_elo_change(task[t].winner_elo,
                                                                 task[t].loser_elo)]
  /\ UNCHANGED <<readOnly, ops>>

\* ---------------------------------------------------------------- /battle
\* check_cooldown: SELECT expires_at FROM cooldowns WHERE ... AND expires_at > now
check_cooldown(m) == cooldowns[m].exists /\ cooldowns[m].expires_at > now

\* set_cooldown: expires_at = now + duration; INSERT ... ON CONFLICT DO UPDATE SET expires_at
set_cooldown(m, duration_seconds) ==
  cooldowns' = [cooldowns EXCEPT ![m] = [exists |-> TRUE, expires_at |-> now + duration_seconds]]

\* the sweep's filter with the comparison inverted
ExpiredInverted(row, cutoff) == row.exists /\ row.expires_at >= cutoff

\* clear_expired_cooldowns: the row filter of DELETE FROM cooldowns WHERE expires_at <= $1
Expired(row, cutoff) == row.exists /\ row.expires_at <= cutoff

\* cleanup_cooldowns (tasks.loop, every 5 minutes): clear_expired_cooldowns
\* acquires a connection and evaluates datetime.now() for the statement
CleanupBegin(t) ==
  /\ Invoke(t)
  /\ task' = [task EXCEPT ![t] = [Idle EXCEPT !.op = "cleanup_cooldowns",
                                                !.pc = "clear_expired_cooldowns",
                                                !.cutoff = now]]
  /\ UNCHANGED readOnly

\* clear_expired_cooldowns: DELETE FROM cooldowns WHERE expires_at <= $1
CleanupDelete(t) ==
  /\ At(t, "cleanup_cooldowns", "clear_expired_cooldowns")
  /\ cooldowns' = [m \in Members |->
                     IF Expired(cooldowns[m], task[t].cutoff) THEN NoCooldownRow
                     ELSE cooldowns[m]]
  /\ Finish(t, "swept")
  /\ UNCHANGED <<items, daily_missions, users, max_summons, summons, inventory, equipped_items, equipped_items_id_seq, user_mission_progress, battles,
                 clockVars, uiVars, histVars, ops>>

\* battle: is_user_registered(interaction.user)
BattleBegin(t, m, opp, sid) ==
  /\ Invoke(t)
  /\ IF is_user_registered(m)
     THEN task' = [task EXCEPT ![t] = [Idle EXCEPT !.op = "battle", !.pc = "check_opponent",
                                                   !.user = m, !.opponent = opp,
                                                   !.servant_id = sid]]
     ELSE Reject(t, "battle", m, "not_registered")
  /\ UNCHANGED readOnly

\* battle: is_user_registered(opponent); opponent.id == interaction.user.id
BattleCheckOpponent(t) ==
  /\ At(t, "battle", "check_opponent")
  /\ IF ~is_user_registered(task[t].opponent) THEN Finish(t, "opponent_not_registered")
     ELSE IF task[t].opponent = task[t].user THEN Finish(t, "self_challenge")
     ELSE task' = [task EXCEPT ![t].pc = "check_cooldown"]
  /\ UNCHANGED <<readOnly, ops>>

\* battle: cooldown = await db.check_cooldown(interaction.user.id, ...)
BattleCheckCooldown(t) ==
  /\ At(t, "battle", "check_cooldown")
  /\ IF check_cooldown(task[t].user) THEN Finish(t, "cooldown")
     ELSE task' = [task EXCEPT ![t].pc = "get_servant_by_id"]
  /\ UNCHANGED <<readOnly, ops>>

\* battle: servant = await db.get_servant_by_id(servant_id); ownership
BattleGetServant(t) ==
  /\ At(t, "battle", "get_servant_by_id")
  /\ IF \E s \in summons : s.id = task[t].servant_id /\ s.user_id = task[t].user
     THEN task' = [task EXCEPT ![t].pc = "send_challenge"]
     ELSE Finish(t, "not_owner")
  /\ UNCHANGED <<readOnly, ops>>

\* battle: get_servant_stats; BattleChallengeView(challenger, opponent, servant_id) is posted
BattleSendChallenge(t) ==
  /\ At(t, "battle", "send_challenge")
  /\ challenge_views' = challenge_views \cup
       {[challenger_id |-> task[t].user, opponent_id |-> task[t].opponent,
         challenger_servant_id |-> task[t].servant_id, disabled |-> FALSE]}
  /\ Finish(t, "challenged")
  /\ UNCHANGED <<dbVars, clockVars, summon_views, battle_views, histVars, ops>>

\* BattleChallengeView.accept_button
AcceptButton(t, view, clicker) ==
  /\ Invoke(t)
  /\ view \in challenge_views
  /\ ~view.disabled
  /\ IF clicker # view.opponent_id
     THEN /\ Reject(t, "accept", clicker, "not_for_you")
          /\ UNCHANGED battle_views
     ELSE IF get_user_summons(view.opponent_id) = {}
     THEN /\ Reject(t, "accept", clicker, "no_servants")
          /\ UNCHANGED battle_views
     ELSE /\ battle_views' = battle_views \cup
               {[challenger_id |-> view.challenger_id, opponent_id |-> view.opponent_id,
                 challenger_servant_id |-> view.challenger_servant_id,
                 options |-> {s.id : s \in get_user_summons(view.opponent_id)}]}
          /\ Reject(t, "accept", clicker, "accepted")
  /\ UNCHANGED <<dbVars, clockVars, summon_views, challenge_views, histVars>>

\* BattleChallengeView.decline_button: item.disabled = True; message.edit(view=self)
DeclineButton(t, view, clicker) ==
  /\ Invoke(t)
  /\ view \in challenge_views
  /\ ~view.disabled
  /\ IF clicker # view.opponent_id
     THEN /\ Reject(t, "decline", clicker, "not_for_you")
          /\ UNCHANGED challenge_views
     ELSE /\ challenge_views' = (challenge_views \ {view}) \cup {[view EXCEPT !.disabled = TRUE]}
          /\ Reject(t, "decline", clicker, "declined")
  /\ UNCHANGED <<dbVars, clockVars, summon_views, battle_views, histVars>>

\* the member whose cooldown the callback would check if it looked at the challenger
interaction_user_challenger(view) == view.challenger_id

\* callback: interaction.user, the member using the dropdown; accept_button sends
\* the dropdown ephemerally to the member it let through as self.opponent_id
interaction_user(view) == view.opponent_id

\* ServantBattleSelect.callback: check_cooldown(interaction.user.id) (the dropdown is
\* ephemeral: interaction.user is the opponent who accepted)
BattleSelectBegin(t, view, sid) ==
  /\ Invoke(t)
  /\ view \in battle_views
  /\ sid \in view.options
  /\ LET cooldown == check_cooldown(interaction_user(view))
     IN task' = [task EXCEPT ![t] =
                   [Idle EXCEPT !.op = "battle_select",
                                !.pc = IF cooldown THEN "done" ELSE "simulate_battle",
                                !.result = IF cooldown THEN "cooldown" ELSE "none",
                                !.user = view.challenger_id,
                                !.opponent = view.opponent_id,
                                !.servant_id = view.challenger_servant_id,
                                !.opponent_servant_id = sid]]
  /\ UNCHANGED readOnly

\* get_servant_by_id / get_servant_stats: SELECT * FROM summons WHERE id = $1
\* (summons.id is the primary key)
get_servant_by_id(servant_id) == CHOOSE s \in summons : s.id = servant_id

\* callback: get_servant_stats x2; simulate_battle; winner_id (random.random() decides
\* hits, so either side may win); get_user_stats x2; elo_change =
\* calculate_elo_change(winner's rating, loser's rating); exp_gained = 50 +
\* loser['level'] * 5; get_battle_forum
BattleSimulate(t, winner_id) ==
  /\ At(t, "battle_select", "simulate_battle")
  /\ winner_id \in {task[t].user, task[t].opponent}
  /\ LET challenger_won == winner_id = task[t].user
         loser_id == IF challenger_won THEN task[t].opponent ELSE task[t].user
         loser == get_servant_by_id(IF challenger_won THEN task[t].opponent_servant_id
                                    ELSE task[t].servant_id)
     IN task' = [task EXCEPT ![t].winner_id = winner_id,
                             ![t].elo_change = calculate_elo_change(users[winner_id].elo_rating,
                                                                    users[loser_id].elo_rating),
                             ![t].exp_gained = 50 + loser.level * 5,
                             ![t].pc = "create_battle"]
  /\ UNCHANGED <<readOnly, ops>>

\* create_battle: INSERT INTO battles (...) RETURNING id
create_battle(t) ==
  /\ At(t, "battle_select", "create_battle")
  /\ battles' = battles \cup
       {[id |-> Cardinality(battles) + 1,
         challenger_id |-> task[t].user, opponent_id |-> task[t].opponent,
         challenger_servant_id |-> task[t].servant_id,
         opponent_servant_id |-> task[t].opponent_servant_id,
         winner_id |-> "nobody", completed |-> FALSE, completed_at |-> 0]}
  /\ task' = [task EXCEPT ![t].battle_id = Cardinality(battles) + 1, ![t].pc = "complete_battle"]
  /\ UNCHANGED <<items, daily_missions, users, max_summons, summons, inventory, equipped_items, equipped_items_id_seq, user_mission_progress, cooldowns,
                 clockVars, uiVars, histVars, ops>>

\* complete_battle: SELECT * FROM battles WHERE id; UPDATE battles SET winner_id, completed_at
CompleteBattleRecord(t) ==
  /\ At(t, "battle_select", "complete_battle")
  /\ battles' = {IF b.id = task[t].battle_id
                 THEN [b EXCEPT !.winner_id = task[t].winner_id, !.completed = TRUE,
                                !.completed_at = now]
                 ELSE b : b \in battles}
  /\ task' = [task EXCEPT ![t].pc = "complete_winner"]
  /\ UNCHANGED <<items, daily_missions, users, max_summons, summons, inventory, equipped_items, equipped_items_id_seq, user_mission_progress, cooldowns,
                 clockVars, uiVars, histVars, ops>>

\* complete_battle: loser_id
LoserOf(t) == IF task[t].winner_id = task[t].user THEN task[t].opponent ELSE task[t].user

\* the floor of the loser's rating left out
LoserRatingUnfloored(elo_rating, elo_change) == elo_rating - elo_change

\* complete_battle: elo_rating = GREATEST(elo_rating - $1, 0)
LoserRating(elo_rating, elo_change) == Max(elo_rating - elo_change, 0)

\* complete_battle: UPDATE users SET battle_wins = battle_wins + 1,
\* elo_rating = elo_rating + $1 WHERE user_id = winner_id
CompleteBattleWinner(t) ==
  /\ At(t, "battle_select", "complete_winner")
  /\ users' = IF users[task[t].winner_id].exists
              THEN [users EXCEPT ![task[t].winner_id].battle_wins = @ + 1,
                                 ![task[t].winner_id].elo_rating = @ + task[t].elo_change]
              ELSE users
  /\ task' = [task EXCEPT ![t].pc = "complete_loser"]
  /\ UNCHANGED <<dbExceptUsers, clockVars, uiVars, histVars, ops>>

\* complete_battle: UPDATE users SET battle_losses + 1, elo_rating = GREATEST(...),
\* current_streak = 0 WHERE user_id = loser_id
CompleteBattleLoser(t) ==
  /\ At(t, "battle_select", "complete_loser")
  /\ users' = IF users[LoserOf(t)].exists
              THEN [users EXCEPT ![LoserOf(t)].battle_losses = @ + 1,
                                 ![LoserOf(t)].elo_rating = LoserRating(@, task[t].elo_change),
                                 ![LoserOf(t)].current_streak = 0]
              ELSE users
  /\ task' = [task EXCEPT ![t].pc = "complete_winner_servant"]
  /\ UNCHANGED <<dbExceptUsers, clockVars, uiVars, histVars, ops>>

\* complete_battle: winner_servant_id, loser_servant_id
WinnerServantOf(t) ==
  IF task[t].winner_id = task[t].user THEN task[t].servant_id ELSE task[t].opponent_servant_id
LoserServantOf(t) ==
  IF task[t].winner_id = task[t].user THEN task[t].opponent_servant_id ELSE task[t].servant_id

\* the row filter of an UPDATE that has lost its WHERE clause
WhereIdMissing(s, servant_id) == TRUE

\* the row filter of UPDATE summons ... WHERE id = $n
WhereId(s, servant_id) == s.id = servant_id

\* UPDATE summons SET ... WHERE id = servant_id, the row changed by f
UpdateSummon(servant_id, f(_)) ==
  summons' = {IF WhereId(s, servant_id) THEN f(s) ELSE s : s \in summons}

\* complete_battle: UPDATE summons SET battles_won + 1, total_battles + 1 WHERE id = winner_servant_id
CompleteServantWinner(t) ==
  /\ At(t, "battle_select", "complete_winner_servant")
  /\ LET f(s) == [s EXCEPT !.battles_won = @ + 1, !.total_battles = @ + 1]
     IN UpdateSummon(WinnerServantOf(t), f)
  /\ task' = [task EXCEPT ![t].pc = "complete_loser_servant"]
  /\ UNCHANGED <<items, daily_missions, users, max_summons, inventory, equipped_items, equipped_items_id_seq,
                 user_mission_progress, cooldowns, battles, clockVars, uiVars, histVars, ops>>

\* complete_battle: UPDATE summons SET total_battles + 1 WHERE id = loser_servant_id;
\* then add_experience(winner_servant_id, exp_gained)
CompleteServantLoser(t) ==
  /\ At(t, "battle_select", "complete_loser_servant")
  /\ LET f(s) == [s EXCEPT !.total_battles = @ + 1]
     IN UpdateSummon(LoserServantOf(t), f)
  /\ task' = [task EXCEPT ![t].pc = "add_experience"]
  /\ UNCHANGED <<items, daily_missions, users, max_summons, inventory, equipped_items, equipped_items_id_seq,
                 user_mission_progress, cooldowns, battles, clockVars, uiVars, histVars, ops>>

\* the level-up loop comparing with > where the code has >=
RECURSIVE LevelUpStrict(_, _, _)
LevelUpStrict(current_level, new_exp, levels_gained) ==
  IF new_exp > current_level * 100 /\ current_level < 100
  THEN LevelUpStrict(current_level + 1, new_exp - current_level * 100, levels_gained + 1)
  ELSE [current_level |-> current_level, new_exp |-> new_exp, levels_gained |-> levels_gained]

\* the level-up loop without the cap at level 100
RECURSIVE LevelUpUncapped(_, _, _)
LevelUpUncapped(current_level, new_exp, levels_gained) ==
  IF new_exp >= current_level * 100
  THEN LevelUpUncapped(current_level + 1, new_exp - current_level * 100, levels_gained + 1)
  ELSE [current_level |-> current_level, new_exp |-> new_exp, levels_gained |-> levels_gained]

\* add_experience: while new_exp >= (current_level * 100) and current_level < 100:
\* new_exp -= current_level * 100; current_level += 1; levels_gained += 1
RECURSIVE LevelUp(_, _, _)
LevelUp(current_level, new_exp, levels_gained) ==
  IF new_exp >= current_level * 100 /\ current_level < 100
  THEN LevelUp(current_level + 1, new_exp - current_level * 100, levels_gained + 1)
  ELSE [current_level |-> current_level, new_exp |-> new_exp, levels_gained |-> levels_gained]

\* add_experience: servant = SELECT * FROM summons WHERE id = $1; the loop
AddExperienceRead(t) ==
  /\ At(t, "battle_select", "add_experience")
  /\ LET servant == get_servant_by_id(WinnerServantOf(t))
         after == LevelUp(servant.level, servant.experience + task[t].exp_gained, 0)
     IN task' = [task EXCEPT ![t].current_level = after.current_level,
                             ![t].new_exp = after.new_exp,
                             ![t].levels_gained = after.levels_gained,
                             ![t].pc = "add_experience_update"]
  /\ UNCHANGED <<readOnly, ops>>

\* the stat points of a level-up applied once per call instead of per level
StatsGainedFlat(levels_gained) == 2

\* add_experience: total_stats_gained += 2 per level gained
StatsGained(levels_gained) == 2 * levels_gained

\* add_experience: UPDATE summons SET level = $1, experience = $2, base_attack =
\* base_attack + $3, base_defense + $3, base_hp + ($3 * 10), base_speed + $3 if
\* levels were gained, else UPDATE summons SET experience = $1
AddExperienceUpdate(t) ==
  /\ At(t, "battle_select", "add_experience_update")
  /\ LET total_stats_gained == StatsGained(task[t].levels_gained)
         f(s) == IF task[t].levels_gained > 0
                 THEN [s EXCEPT !.level = task[t].current_level,
                                !.experience = task[t].new_exp,
                                !.base_attack = @ + total_stats_gained,
                                !.base_defense = @ + total_stats_gained,
                                !.base_hp = @ + total_stats_gained * 10,
                                !.base_speed = @ + total_stats_gained]
                 ELSE [s EXCEPT !.experience = task[t].new_exp]
     IN UpdateSummon(WinnerServantOf(t), f)
  /\ task' = [task EXCEPT ![t].pc = "set_cooldown_challenger"]
  /\ UNCHANGED <<items, daily_missions, users, max_summons, inventory, equipped_items, equipped_items_id_seq,
                 user_mission_progress, cooldowns, battles, clockVars, uiVars, histVars, ops>>

\* callback: set_cooldown(self.challenger_id, ..., "battle", 300)
SetCooldownChallenger(t) ==
  /\ At(t, "battle_select", "set_cooldown_challenger")
  /\ set_cooldown(task[t].user, BattleCooldown)
  /\ task' = [task EXCEPT ![t].pc = "set_cooldown_opponent"]
  /\ UNCHANGED <<items, daily_missions, users, max_summons, summons, inventory, equipped_items, equipped_items_id_seq, user_mission_progress, battles,
                 clockVars, uiVars, histVars, ops>>

\* callback: set_cooldown(self.opponent_id, ..., "battle", 300); then update_mission_progress(winner_id)
SetCooldownOpponent(t) ==
  /\ At(t, "battle_select", "set_cooldown_opponent")
  /\ set_cooldown(task[t].opponent, BattleCooldown)
  /\ task' = [task EXCEPT ![t].mission_user = task[t].winner_id,
                          ![t].pc = "update_mission_progress"]
  /\ UNCHANGED <<items, daily_missions, users, max_summons, summons, inventory, equipped_items, equipped_items_id_seq, user_mission_progress, battles,
                 clockVars, uiVars, histVars, ops>>

\* ------------------------------------------------------------------ /equip
\* the sum of the stat values of a set of equipped_items rows
RECURSIVE SumOfValues(_)
SumOfValues(rows) ==
  IF rows = {} THEN 0
  ELSE LET e == CHOOSE e \in rows : TRUE
       IN default_items[e.item].stat_value + SumOfValues(rows \ {e})

\* the bonus of a stat with every equipped item counted, whatever its stat type
item_bonuses_any(rows, stat_type) == SumOfValues(rows)

\* get_servant_stats: for item in equipped_items: if item['stat_type'] in
\* item_bonuses: item_bonuses[item['stat_type']] += item['stat_value']
item_bonuses(rows, stat_type) ==
  SumOfValues({e \in rows : default_items[e.item].stat_type = stat_type})

\* get_servant_stats: SELECT * FROM summons WHERE id; SELECT i.stat_type,
\* i.stat_value FROM equipped_items ei JOIN items i WHERE ei.servant_id = $1 AND
\* i.stat_type IS NOT NULL; each stat = base + bonus + item bonus
get_servant_stats(servant_id) ==
  LET servant == get_servant_by_id(servant_id)
      rows == {e \in equipped_items :
                 e.servant_id = servant_id /\ default_items[e.item].stat_type # "none"}
  IN [id |-> servant.id, level |-> servant.level,
      attack |-> servant.base_attack + servant.bonus_attack + item_bonuses(rows, "attack"),
      defense |-> servant.base_defense + servant.bonus_defense + item_bonuses(rows, "defense"),
      hp |-> servant.base_hp + servant.bonus_hp + item_bonuses(rows, "hp"),
      speed |-> servant.base_speed + servant.bonus_speed + item_bonuses(rows, "speed")]

\* equip: is_user_registered
EquipBegin(t, m, servant_id, item_name) ==
  /\ Invoke(t)
  /\ IF is_user_registered(m)
     THEN task' = [task EXCEPT ![t] = [Idle EXCEPT !.op = "equip", !.pc = "get_servant_by_id",
                                                   !.user = m, !.servant_id = servant_id,
                                                   !.item = item_name]]
     ELSE Reject(t, "equip", m, "not_registered")
  /\ UNCHANGED readOnly

\* equip: servant = get_servant_by_id(servant_id); not servant or
\* servant['user_id'] != interaction.user.id rejects
EquipGetServant(t) ==
  /\ At(t, "equip", "get_servant_by_id")
  /\ IF \E s \in summons : s.id = task[t].servant_id /\ s.user_id = task[t].user
     THEN task' = [task EXCEPT ![t].pc = "get_item_by_name"]
     ELSE Finish(t, "not_owner")
  /\ UNCHANGED <<readOnly, ops>>

\* equip: item = get_item_by_name(item_name)
EquipGetItem(t) ==
  /\ At(t, "equip", "get_item_by_name")
  /\ IF task[t].item \in ItemNames
     THEN task' = [task EXCEPT ![t].pc = "get_user_inventory"]
     ELSE Finish(t, "item_not_found")
  /\ UNCHANGED <<readOnly, ops>>

\* equip: inventory_items = get_user_inventory(...); has_item = any(i['id'] == item['id'])
EquipGetInventory(t) ==
  /\ At(t, "equip", "get_user_inventory")
  /\ IF inventory[<<task[t].user, task[t].item>>] > 0
     THEN task' = [task EXCEPT ![t].pc = "equip_item"]
     ELSE Finish(t, "item_not_owned")
  /\ UNCHANGED <<readOnly, ops>>

\* the equipped_items rows of a slot: WHERE servant_id = $1 AND slot_type = $2
SlotRows(servant_id, slot_type) ==
  {e \in equipped_items : e.servant_id = servant_id /\ e.slot_type = slot_type}

\* equip_item: existing = fetchval(SELECT id FROM equipped_items WHERE servant_id
\* AND slot_type), the id of the first row the query returns or None (0);
\* attack_before keeps the resolved attack at the call for the statement of C25
EquipSelectExisting(t, existing) ==
  /\ At(t, "equip", "equip_item")
  /\ LET rows == SlotRows(task[t].servant_id, default_items[task[t].item].item_type)
     IN IF rows = {} THEN existing = 0 ELSE existing \in {e.id : e \in rows}
  /\ task' = [task EXCEPT ![t].existing = existing,
                          ![t].attack_before = get_servant_stats(task[t].servant_id).attack,
                          ![t].pc = IF existing # 0 THEN "equip_delete" ELSE "equip_insert"]
  /\ UNCHANGED <<readOnly, ops>>

\* equip_item: if existing: DELETE FROM equipped_items WHERE id = $1
EquipDelete(t) ==
  /\ At(t, "equip", "equip_delete")
  /\ equipped_items' = {e \in equipped_items : e.id # task[t].existing}
  /\ task' = [task EXCEPT ![t].pc = "equip_insert"]
  /\ UNCHANGED <<items, daily_missions, users, max_summons, summons, inventory, equipped_items_id_seq,
                 user_mission_progress, cooldowns, battles, clockVars, uiVars, histVars, ops>>

\* equip_item: INSERT INTO equipped_items (servant_id, item_id, slot_type), the id
\* from the SERIAL column; then update_mission_progress(..., "use_item", 1)
EquipInsert(t) ==
  /\ At(t, "equip", "equip_insert")
  /\ equipped_items' = equipped_items \cup
       {[id |-> equipped_items_id_seq, servant_id |-> task[t].servant_id,
         item |-> task[t].item, slot_type |-> default_items[task[t].item].item_type]}
  /\ equipped_items_id_seq' = equipped_items_id_seq + 1
  /\ task' = [task EXCEPT ![t].mission_user = task[t].user,
                          ![t].pc = "update_mission_progress"]
  /\ UNCHANGED <<items, daily_missions, users, max_summons, summons, inventory, user_mission_progress, cooldowns,
                 battles, clockVars, uiVars, histVars, ops>>

\* ----------------------------------------------------------- simulate_battle
\* samples of random.uniform(0.8, 1.2), in percent
VarianceInputs == {80, 100, 119}

\* the first striker if the faster side were the later argument on ties
FirstAttackerStrict(s1, s2) == IF s1.speed > s2.speed THEN 1 ELSE 2
\* the first striker if the slower side went first
FirstAttackerSlower(s1, s2) == IF s1.speed <= s2.speed THEN 1 ELSE 2

\* simulate_battle: if s1['speed'] >= s2['speed']: attacker, defender = s1, s2
FirstAttacker(s1, s2) == IF s1.speed >= s2.speed THEN 1 ELSE 2

\* the loop test without the check of the second side's health
LoopConditionFirstOnly(sim) == sim.s1_current_hp > 0 /\ sim.turn < max_turns

\* simulate_battle: while s1['current_hp'] > 0 and s2['current_hp'] > 0 and turn < max_turns
LoopCondition(sim) ==
  sim.s1_current_hp > 0 /\ sim.s2_current_hp > 0 /\ sim.turn < max_turns

\* the winner test with ties going to the first argument
WinnerTieFirst(s1_current_hp, s2_current_hp) ==
  IF s1_current_hp >= s2_current_hp THEN 1 ELSE 2

\* simulate_battle: if s1['current_hp'] > s2['current_hp']: winner, loser = s1, s2
Winner(s1_current_hp, s2_current_hp) ==
  IF s1_current_hp > s2_current_hp THEN 1 ELSE 2

\* simulate_battle: base_damage = max(1, attacker['attack'] - (defender['defense'] // 2))
base_damage(attacker, defender) == Max(1, attacker.attack - (defender.defense \div 2))

\* simulate_battle: crit_chance = 0.1 + level * 0.01; is_crit = random.random() < crit_chance
\* (random.random() is below 1.0, so from level 90 on every hit is critical)
CritOutcomes(level) == IF level >= 90 THEN {TRUE} ELSE BOOLEAN

\* simulate_battle: s1/s2 copies, current_hp = hp, turn = 0, first attacker by speed
SimulateBegin(t) ==
  /\ At(t, "simulate_battle", "begin")
  /\ LET sim == task[t].sim
     IN task' = [task EXCEPT ![t].pc = "loop",
                             ![t].sim = [sim EXCEPT !.s1_current_hp = sim.s1.hp,
                                                    !.s2_current_hp = sim.s2.hp,
                                                    !.turn = 0,
                                                    !.attacker = FirstAttacker(sim.s1, sim.s2)]]
  /\ UNCHANGED <<readOnly, ops>>

\* the roles kept instead of swapped
NextAttackerStuck(attacker) == attacker

\* simulate_battle: attacker, defender = defender, attacker (sides numbered 1 and 2)
NextAttacker(attacker) == 3 - attacker

\* simulate_battle: one pass of the while loop; variance (percent), is_crit and
\* proc are the outcomes of random.uniform and the two random.random draws
SimulateTurn(t, variance, is_crit, proc) ==
  /\ At(t, "simulate_battle", "loop")
  /\ LoopCondition(task[t].sim)
  /\ LET sim == task[t].sim
         attacker == IF sim.attacker = 1 THEN sim.s1 ELSE sim.s2
         defender == IF sim.attacker = 1 THEN sim.s2 ELSE sim.s1
         defender_hp == IF sim.attacker = 1 THEN sim.s2_current_hp ELSE sim.s1_current_hp
         varied == (base_damage(attacker, defender) * variance) \div 100
         damage == IF is_crit THEN (varied * 3) \div 2 ELSE varied
         after_hit == defender_hp - damage
         np_ready == 2 * after_hit < defender.hp
         after_np == IF np_ready /\ proc THEN after_hit - attacker.attack ELSE after_hit
     IN /\ is_crit \in CritOutcomes(attacker.level)
        /\ (proc => np_ready)
        /\ task' = [task EXCEPT ![t].sim =
                      [sim EXCEPT !.turn = sim.turn + 1,
                                  !.s1_current_hp = IF sim.attacker = 1 THEN @ ELSE after_np,
                                  !.s2_current_hp = IF sim.attacker = 1 THEN after_np ELSE @,
                                  !.attacker = NextAttacker(sim.attacker),
                                  !.first = IF sim.turn = 0 THEN sim.attacker ELSE @,
                                  !.plain = @ /\ variance = 100 /\ ~is_crit /\ ~proc]]
  /\ UNCHANGED <<readOnly, ops>>

\* simulate_battle: the loop is left; winner, loser by remaining health
SimulateEnd(t) ==
  /\ At(t, "simulate_battle", "loop")
  /\ ~LoopCondition(task[t].sim)
  /\ task' = [task EXCEPT ![t].pc = "done", ![t].result = "simulated",
                          ![t].sim.winner = Winner(task[t].sim.s1_current_hp,
                                                   task[t].sim.s2_current_hp)]
  /\ UNCHANGED <<readOnly, ops>>

\* ---------------------------------------------------------------- init_db
\* on_ready: await db.init_db(); create_pool and the CREATE TABLE / CREATE INDEX
\* IF NOT EXISTS statements change no row
InitDbBegin(t) ==
  /\ Invoke(t)
  /\ task' = [task EXCEPT ![t] = [Idle EXCEPT !.op = "init_db",
                                                !.pc = "initialize_default_items", !.k = 1]]
  /\ UNCHANGED readOnly

\* initialize_default_items: INSERT INTO items ... ON CONFLICT (name) DO NOTHING
\* (items.name is UNIQUE), one statement per item
InitDbItem(t) ==
  /\ At(t, "init_db", "initialize_default_items")
  /\ LET name == item_order[task[t].k] IN
       items' = IF \E i \in items : i.name = name THEN items
                ELSE items \cup {ItemRow(Cardinality(items) + 1, name)}
  /\ task' = IF task[t].k < Len(item_order)
             THEN [task EXCEPT ![t].k = @ + 1]
             ELSE [task EXCEPT ![t].pc = "initialize_default_missions", ![t].k = 1]
  /\ UNCHANGED <<daily_missions, users, max_summons, summons, inventory, equipped_items,
                 equipped_items_id_seq, user_mission_progress, cooldowns, battles,
                 clockVars, uiVars, histVars, ops>>

\* initialize_default_missions: INSERT INTO daily_missions ... ON CONFLICT DO NOTHING,
\* one statement per mission; the only constraint of daily_missions a row can
\* conflict with is the primary key id, which the INSERT draws from the sequence
InitDbMission(t) ==
  /\ At(t, "init_db", "initialize_default_missions")
  /\ daily_missions' = daily_missions
                          \cup {MissionRow(Cardinality(daily_missions) + 1, task[t].k)}
  /\ IF task[t].k < Cardinality(MissionIds)
     THEN task' = [task EXCEPT ![t].k = @ + 1]
     ELSE Finish(t, "initialized")
  /\ UNCHANGED <<items, users, max_summons, summons, inventory, equipped_items,
                 equipped_items_id_seq, user_mission_progress, cooldowns, battles,
                 clockVars, uiVars, histVars, ops>>

\* ------------------------------------------------------------------ clock
\* the calendar date changes
Midnight ==
  /\ today < MaxDay
  /\ today' = today + 1
  /\ UNCHANGED <<dbVars, now, uiVars, histVars, task, ops>>

TickSeconds == BattleCooldown \div 2

\* time passes within the day
Tick ==
  /\ now < MaxTicks * TickSeconds
  /\ now' = now + TickSeconds
  /\ UNCHANGED <<dbVars, today, uiVars, histVars, task, ops>>

\* ------------------------------------------------------------ initial states
\* balances an account can hold at the start of a behaviour (every value is
\* reachable from the registration grant through givecurrency)
InitSq == {0, 40, StartSq}
InitTickets == {0, 1, StartTickets}

\* a registered member as register_user leaves it, with the given balance
Registered(sq, tickets) ==
  [NewUserRow EXCEPT !.saint_quartz = sq, !.summon_tickets = tickets]

\* a servant row as add_summon leaves it

\* everything but the tables and views a specification starts from
InitRest ==
  /\ items = ItemsOnce
  /\ daily_missions = MissionsOnce
  /\ max_summons = DefaultMaxSummons
  /\ inventory = [k \in Members \X ItemNames |-> 0]
  /\ equipped_items = {}
  /\ equipped_items_id_seq = 1
  /\ cooldowns = [m \in Members |-> NoCooldownRow]
  /\ battles = {}
  /\ today = 0
  /\ now = 0
  /\ task = [t \in Tasks |-> Idle]
  /\ ops = 0
  /\ mission_credited = [k \in ProgressKeys |-> 0]
  /\ claim_returned = {}

\* the ledger: one member, unregistered or registered with some balance,
\* owning no servant or one
Init ==
  /\ InitRest
  /\ \E sq \in InitSq, tickets \in InitTickets :
       users \in {[m \in Members |-> NoUserRow],
                  [m \in Members |-> IF m = "u1" THEN Registered(sq, tickets) ELSE NoUserRow]}
  /\ summons \in {{}, {SummonRow(1, "u1", "C")}}
  /\ (summons # {} => users["u1"].exists)
  /\ user_mission_progress = [k \in ProgressKeys |-> NoProgressRow]
  /\ summon_views = {}
  /\ challenge_views = {}
  /\ battle_views = {}
  /\ daily_granted = [k \in Members \X Days |-> 0]
  /\ last_reported = [m \in Members |-> 0]

\* the handlers that spend or grant currency, except the admin grant
Spending(t, m) ==
  \/ SummonBegin(t, m)
  \/ SummonGetMax(t)
  \/ SummonGetSummons(t)
  \/ SummonGetCurrency(t)
  \/ \E roll \in RollValues : SummonPay(t, roll)
  \/ \E item_name \in BuyInputs : BuyBegin(t, m, item_name)
  \/ BuyGetItem(t)
  \/ BuyGetCurrency(t)
  \/ BuyPay(t)
  \/ BuyAddItem(t)

Next ==
  \E t \in Tasks :
    \/ RegisterBegin(t, "u1")
    \/ RegisterUser(t)
    \/ Spending(t, "u1")
    \/ \E sq \in GiveSqInputs, tk \in GiveTicketInputs : GiveCurrency(t, "u1", sq, tk)
    \/ \E n \in MaxSummonsInputs : SetMaxSummons(t, n)

Spec == Init /\ [][Next]_vars

\* the ledger without admin commands: only /summon and /buy run
NextSpend == \E t \in Tasks : Spending(t, "u1")

SpecSpend == Init /\ [][NextSpend]_vars

\* ------------------------------------------------- missions specification
\* a progress row as update_mission_progress leaves it after n events
ProgressRow(n, requirement) ==
  [exists |-> TRUE, progress |-> n, completed |-> n >= requirement, claimed |-> FALSE]

\* u1 is registered; either nothing has happened yet, or a /summon paid with a
\* ticket has left its dropdown open, the roll having given any of the ranks
InitMission ==
  /\ InitRest
  /\ \E open \in BOOLEAN, rank \in Ranks :
       /\ users = [m \in Members |->
                     IF m = "u1"
                     THEN Registered(StartSq, IF open THEN StartTickets - 1 ELSE StartTickets)
                     ELSE NoUserRow]
       /\ summon_views = IF open THEN {[user |-> "u1", rank |-> rank]} ELSE {}
  /\ summons = {}
  /\ user_mission_progress = [k \in ProgressKeys |-> NoProgressRow]
  /\ challenge_views = {}
  /\ battle_views = {}
  /\ daily_granted = [k \in Members \X Days |-> 0]
  /\ last_reported = [m \in Members |-> 0]

NextMission ==
  \/ \E t \in Tasks :
       \/ \E view \in summon_views, clicker \in Members : SelectBegin(t, view, clicker)
       \/ AddSummon(t)
       \/ UpdateMissionBegin(t)
       \/ UpdateMissionUpsert(t)
       \/ UpdateMissionCheck(t)
       \/ UpdateMissionComplete(t)
       \/ \E mission_type \in ClaimInputs : ClaimBegin(t, "u1", mission_type)
       \/ ClaimGetMissions(t)
       \/ ClaimRead(t)
       \/ ClaimGetReward(t)
       \/ ClaimPay(t)
       \/ ClaimMark(t)
  \/ Midnight

SpecMission == InitMission /\ [][NextMission]_vars

\* ------------------------------------------- daily and battle specification
\* dates of an earlier daily claim, and the streaks it may have reported
PastClaimDays == {-2, -1, 0}
PastStreaks == {2, 8}

\* a member as claim_daily_reward leaves it after a claim on date d reporting streak s
Claimed(d, s) ==
  [NewUserRow EXCEPT !.last_daily_claim = d, !.current_streak = s, !.longest_streak = s]

\* the challenge u2 posts with /battle, and the dropdown u1 gets by accepting it
PostedChallenge ==
  [challenger_id |-> "u2", opponent_id |-> "u1", challenger_servant_id |-> 2,
   disabled |-> FALSE]
OpenBattleSelect ==
  [challenger_id |-> "u2", opponent_id |-> "u1", challenger_servant_id |-> 2,
   options |-> {1}]

\* a battle row as create_battle and complete_battle leave it
WonBattle(id, winner_id, completed_at) ==
  [id |-> id, challenger_id |-> "u2", opponent_id |-> "u1",
   challenger_servant_id |-> 2, opponent_servant_id |-> 1,
   winner_id |-> winner_id, completed |-> TRUE, completed_at |-> completed_at]

\* the users rows after u1 has beaten u2 twice, both starting from rating 1000
UsersAfterTwoWins(rows) ==
  LET first == calculate_elo_change(1000, 1000)
      second == calculate_elo_change(1000 + first, 1000 - first)
  IN [rows EXCEPT !["u1"].battle_wins = 2,
                  !["u1"].elo_rating = 1000 + first + second,
                  !["u2"].battle_losses = 2,
                  !["u2"].elo_rating = LoserRating(LoserRating(1000, first), second),
                  !["u2"].current_streak = 0]

\* the summons rows after servant 1 has beaten servant 2 twice, both level 1:
\* two awards of 50 + 1 * 5 experience
SummonsAfterTwoWins(rows) ==
  {IF s.id = 1
   THEN LET after == LevelUp(s.level, s.experience + 2 * (50 + 1 * 5), 0)
            total_stats_gained == StatsGained(after.levels_gained)
        IN [s EXCEPT !.level = after.current_level, !.experience = after.new_exp,
                     !.base_attack = @ + total_stats_gained,
                     !.base_defense = @ + total_stats_gained,
                     !.base_hp = @ + total_stats_gained * 10,
                     !.base_speed = @ + total_stats_gained,
                     !.battles_won = 2, !.total_battles = 2]
   ELSE IF s.id = 2 THEN [s EXCEPT !.total_battles = 2]
   ELSE s : s \in rows}

\* both members are registered and own one servant; u1 has never claimed or
\* has claimed on an earlier date or today; a challenge may be pending;
\* u1 may have won two battles against u2 today, the cooldowns since expired
InitDaily ==
  /\ items = ItemsOnce
  /\ daily_missions = MissionsOnce
  /\ max_summons = DefaultMaxSummons
  /\ inventory = [k \in Members \X ItemNames |-> 0]
  /\ equipped_items = {}
  /\ equipped_items_id_seq = 1
  /\ today = 0
  /\ now = 0
  /\ task = [t \in Tasks |-> Idle]
  /\ ops = 0
  /\ mission_credited = [k \in ProgressKeys |-> 0]
  /\ claim_returned = {}
  /\ \E won \in BOOLEAN :
       /\ \E d \in PastClaimDays, s \in PastStreaks :
            /\ \E rows \in {[m \in Members |-> NewUserRow],
                             [m \in Members |-> IF m = "u1" THEN Claimed(d, s) ELSE NewUserRow]} :
                 users = IF won THEN UsersAfterTwoWins(rows) ELSE rows
            /\ last_reported = [m \in Members |-> users[m].current_streak]
            /\ daily_granted = [k \in Members \X Days |->
                                  IF users[k[1]].last_daily_claim = k[2] THEN 1 ELSE 0]
       /\ LET rows == {SummonRow(1, "u1", "C"), SummonRow(2, "u2", "C")}
          IN summons = IF won THEN SummonsAfterTwoWins(rows) ELSE rows
       /\ battles = IF won THEN {WonBattle(1, "u1", -2 * BattleCooldown),
                                   WonBattle(2, "u1", -BattleCooldown)}
                    ELSE {}
       /\ cooldowns = [m \in Members |->
                         IF won THEN [exists |-> TRUE, expires_at |-> 0] ELSE NoCooldownRow]
       /\ user_mission_progress =
            [k \in ProgressKeys |->
               IF won /\ k = <<"u1", 1, 0>> THEN ProgressRow(2, 3) ELSE NoProgressRow]
  /\ summon_views = {}
  /\ challenge_views \in {{}, {PostedChallenge}}
  /\ battle_views \in {{}, {OpenBattleSelect}}
  /\ (battle_views # {} => challenge_views # {})

\* the handlers of ServantBattleSelect.callback
BattleSelect(t) ==
  \/ \E view \in battle_views : \E sid \in view.options : BattleSelectBegin(t, view, sid)
  \/ \E winner_id \in Members : BattleSimulate(t, winner_id)
  \/ create_battle(t)
  \/ CompleteBattleRecord(t)
  \/ CompleteBattleWinner(t)
  \/ CompleteBattleLoser(t)
  \/ CompleteServantWinner(t)
  \/ CompleteServantLoser(t)
  \/ AddExperienceRead(t)
  \/ AddExperienceUpdate(t)
  \/ SetCooldownChallenger(t)
  \/ SetCooldownOpponent(t)
  \/ UpdateMissionBegin(t)
  \/ UpdateMissionUpsert(t)
  \/ UpdateMissionCheck(t)
  \/ UpdateMissionComplete(t)

NextDaily ==
  \/ \E t \in Tasks :
       \/ DailyBegin(t, "u1")
       \/ DailyReadLastClaim(t)
       \/ DailyReadStreak(t)
       \/ DailyUpdate(t)
       \/ BattleSelect(t)
  \/ Midnight

SpecDaily == InitDaily /\ [][NextDaily]_vars

\* ------------------------------------------------------ battle specification
\* the challenges u2 may have posted with /battle before any cooldown was set,
\* and the dropdowns their opponents got by accepting
ChallengeTo(opp) ==
  [challenger_id |-> "u2", opponent_id |-> opp, challenger_servant_id |-> 2,
   disabled |-> FALSE]
BattleSelectOf(opp, sid) ==
  [challenger_id |-> "u2", opponent_id |-> opp, challenger_servant_id |-> 2,
   options |-> {sid}]

\* a servant u2 summoned in the other community (summons.id is one SERIAL for
\* all communities)
AbroadRow == [SummonRow(4, "u2", "C") EXCEPT !.guild_id = OtherGuild]

\* u1 and u2 are registered and own one servant each, u2 perhaps another one in
\* the other community; u3 is unregistered, or
\* registered with one servant; u2 may have challenged u1, or u1 and u3, and
\* the challenged may have accepted; u1 may have won two battles against u2
\* today, the cooldowns of the second since expired or still running
InitBattle ==
  /\ items = ItemsOnce
  /\ daily_missions = MissionsOnce
  /\ max_summons = DefaultMaxSummons
  /\ inventory = [k \in Members \X ItemNames |-> 0]
  /\ equipped_items = {}
  /\ equipped_items_id_seq = 1
  /\ today = 0
  /\ now = 0
  /\ task = [t \in Tasks |-> Idle]
  /\ ops = 0
  /\ mission_credited = [k \in ProgressKeys |-> 0]
  /\ claim_returned = {}
  /\ daily_granted = [k \in Members \X Days |-> 0]
  /\ last_reported = [m \in Members |-> 0]
  /\ summon_views = {}
  /\ \E won \in BOOLEAN, expires_at \in {0, BattleCooldown} :
       /\ \E third \in BOOLEAN :
            /\ LET rows == [m \in Members |->
                              IF m = "u3" /\ ~third THEN NoUserRow ELSE NewUserRow]
               IN users = IF won THEN UsersAfterTwoWins(rows) ELSE rows
            /\ \E abroad \in SUBSET {AbroadRow} :
                 LET rows == {SummonRow(1, "u1", "C"), SummonRow(2, "u2", "C")}
                               \cup (IF third THEN {SummonRow(3, "u3", "C")} ELSE {})
                               \cup abroad
                 IN summons = IF won THEN SummonsAfterTwoWins(rows) ELSE rows
            /\ challenge_views \in
                 {{}, {ChallengeTo("u1")}}
                   \cup (IF third THEN {{ChallengeTo("u1"), ChallengeTo("u3")}} ELSE {})
       /\ battle_views \in {{BattleSelectOf(v.opponent_id, IF v.opponent_id = "u1" THEN 1 ELSE 3)
                                : v \in accepted} : accepted \in SUBSET challenge_views}
       /\ battles = IF won THEN {WonBattle(1, "u1", expires_at - 2 * BattleCooldown),
                                   WonBattle(2, "u1", expires_at - BattleCooldown)}
                    ELSE {}
       /\ cooldowns = [m \in Members |->
                         IF won /\ m # "u3" THEN [exists |-> TRUE, expires_at |-> expires_at]
                         ELSE NoCooldownRow]
       /\ user_mission_progress =
            [k \in ProgressKeys |->
               IF won /\ k = <<"u1", 1, 0>> THEN ProgressRow(2, 3) ELSE NoProgressRow]

\* the /battle command while cooldowns run out
InitChallenge == InitBattle /\ battle_views = {}

NextChallenge ==
  \/ \E t \in Tasks :
       \/ \E m \in {"u2", "u3"}, opp \in {"u1", "u2", "u3"}, sid \in {1, 2, 4} :
            BattleBegin(t, m, opp, sid)
       \/ BattleCheckOpponent(t)
       \/ BattleCheckCooldown(t)
       \/ BattleGetServant(t)
       \/ BattleSendChallenge(t)
  \/ Tick

SpecChallenge == InitChallenge /\ [][NextChallenge]_vars

\* accepting a challenge, the dropdown callback and the cooldown sweep, with
\* all three members registered and both challenges of u2 posted, none or both
\* of them accepted
InitCooldown ==
  /\ InitBattle
  /\ users["u3"].exists
  /\ ChallengeTo("u3") \in challenge_views
  /\ AbroadRow \notin summons
  /\ battle_views = {} \/ Cardinality(battle_views) = Cardinality(challenge_views)
  /\ battles # {}

\* the interactions and sweeps dispatched in a behaviour of the cooldown specification
MaxCooldownOps == 2

NextCooldown ==
  \/ \E t \in Tasks :
       /\ \/ \E view \in challenge_views, clicker \in Members : AcceptButton(t, view, clicker)
          \/ BattleSelect(t)
          \/ CleanupBegin(t)
          \/ CleanupDelete(t)
       /\ ops' <= MaxCooldownOps
  \/ Tick

SpecCooldown == InitCooldown /\ [][NextCooldown]_vars

\* ------------------------------------------------ battle engine specification
\* stat blocks of servant id as get_servant_stats returns them (base + bonus +
\* equipment); a level-1 servant
StatBlocks(id) ==
  [id : {id}, level : {1}, attack : {1, 5, 6}, defense : {0, 4}, hp : {8, 10},
   speed : {1, 2}]

\* the callback of u1's dropdown has fetched both stat blocks and calls
\* simulate_battle(s1_stats, s2_stats)
InitSimulate ==
  /\ items = ItemsOnce
  /\ daily_missions = MissionsOnce
  /\ max_summons = DefaultMaxSummons
  /\ inventory = [k \in Members \X ItemNames |-> 0]
  /\ equipped_items = {}
  /\ equipped_items_id_seq = 1
  /\ cooldowns = [m \in Members |-> NoCooldownRow]
  /\ battles = {}
  /\ today = 0
  /\ now = 0
  /\ ops = 1
  /\ mission_credited = [k \in ProgressKeys |-> 0]
  /\ claim_returned = {}
  /\ daily_granted = [k \in Members \X Days |-> 0]
  /\ last_reported = [m \in Members |-> 0]
  /\ users = [m \in Members |-> IF m = "u3" THEN NoUserRow ELSE NewUserRow]
  /\ summons = {SummonRow(1, "u1", "C"), SummonRow(2, "u2", "C")}
  /\ user_mission_progress = [k \in ProgressKeys |-> NoProgressRow]
  /\ summon_views = {}
  /\ challenge_views = {ChallengeTo("u1")}
  /\ battle_views = {BattleSelectOf("u1", 1)}
  /\ \E s1 \in StatBlocks(2), s2 \in StatBlocks(1) :
       task = [t \in Tasks |->
                 IF t = "t1"
                 THEN [Idle EXCEPT !.op = "simulate_battle", !.pc = "begin",
                                   !.user = "u2", !.opponent = "u1",
                                   !.servant_id = 2, !.opponent_servant_id = 1,
                                   !.sim = [NoSim EXCEPT !.s1 = s1, !.s2 = s2]]
                 ELSE Idle]

NextSimulate ==
  \E t \in Tasks :
    \/ SimulateBegin(t)
    \/ \E variance \in VarianceInputs, is_crit, proc \in BOOLEAN :
         SimulateTurn(t, variance, is_crit, proc)
    \/ SimulateEnd(t)

SpecSimulate == InitSimulate /\ [][NextSimulate]_vars

\* the event loop runs the coroutine to its end: its body holds no await
SpecSimulateFair == SpecSimulate /\ WF_vars(NextSimulate)

\* ------------------------------------------- battle completion specification
\* a servant of rank C that has reached the given level through add_experience:
\* each level gained added StatsGained(1) to the base stats, and the experience
\* it has collected came from wins worth 100 on average (a win awards 55 to
\* 550); the battles rows of those wins are left out, no handler reads them
ServantAt(id, m, level, experience) ==
  LET fresh == SummonRow(id, m, "C")
      total_stats_gained == StatsGained(level - 1)
      won == (50 * level * (level - 1) + experience) \div 100
  IN [fresh EXCEPT !.level = level, !.experience = experience,
                   !.base_attack = @ + total_stats_gained,
                   !.base_defense = @ + total_stats_gained,
                   !.base_hp = @ + total_stats_gained * 10,
                   !.base_speed = @ + total_stats_gained,
                   !.battles_won = won, !.total_battles = won]

\* the owner of one servant, with the wins of that servant, the given losses
\* and the given rating
Owner(servant, battle_losses, elo_rating) ==
  [NewUserRow EXCEPT !.elo_rating = elo_rating, !.battle_wins = servant.battles_won,
                     !.battle_losses = battle_losses]

\* the standings the completion of a battle starts from: the two members'
\* ratings and records and their servants' levels and experience
Standings ==
  {[s1 |-> ServantAt(1, "u1", 1, 0), s2 |-> ServantAt(2, "u2", 1, 0),
    losses |-> <<0, 0>>, elo_rating |-> <<1000, 1000>>],
   [s1 |-> ServantAt(1, "u1", 1, 0), s2 |-> ServantAt(2, "u2", 10, 0),
    losses |-> <<0, 20>>, elo_rating |-> <<1000, 1200>>],
   [s1 |-> ServantAt(1, "u1", 1, 0), s2 |-> ServantAt(2, "u2", 100, 9990),
    losses |-> <<150, 900>>, elo_rating |-> <<3, 1400>>],
   [s1 |-> ServantAt(1, "u1", 99, 9400), s2 |-> ServantAt(2, "u2", 100, 9990),
    losses |-> <<900, 900>>, elo_rating |-> <<1400, 1400>>]}

\* u2 has challenged u1, u1 has accepted, and the dropdown with u1's servant is open
InitComplete ==
  /\ InitRest
  /\ \E st \in Standings :
       /\ users = [m \in Members |->
                     IF m = "u1" THEN Owner(st.s1, st.losses[1], st.elo_rating[1])
                     ELSE IF m = "u2" THEN Owner(st.s2, st.losses[2], st.elo_rating[2])
                     ELSE NoUserRow]
       /\ summons = {st.s1, st.s2}
  /\ user_mission_progress = [k \in ProgressKeys |-> NoProgressRow]
  /\ summon_views = {}
  /\ challenge_views = {ChallengeTo("u1")}
  /\ battle_views = {BattleSelectOf("u1", 1)}
  /\ daily_granted = [k \in Members \X Days |-> 0]
  /\ last_reported = [m \in Members |-> 0]

NextComplete ==
  \/ \E t \in Tasks : BattleSelect(t)
  \/ Tick

SpecComplete == InitComplete /\ [][NextComplete]_vars

\* ------------------------------------------------------ equip specification
\* the /equip commands issued: member, servant id, item name
EquipInputs ==
  {<<"u1", 1, "Simple Sword">>, <<"u1", 1, "Gae Bolg Replica">>,
   <<"u1", 1, "Leather Armor">>, <<"u1", 1, "No Such Item">>,
   <<"u1", 2, "Simple Sword">>, <<"u2", 2, "Simple Sword">>,
   <<"u3", 1, "Simple Sword">>}

\* an equipped_items row as equip_item inserts it
EquippedRow(id, servant_id, item_name) ==
  [id |-> id, servant_id |-> servant_id, item |-> item_name,
   slot_type |-> default_items[item_name].item_type]

\* u1 owns servant 1 and has bought the two weapons and the armor, u2 owns
\* servant 2 and no item, u3 is not registered; servant 1 carries nothing yet
\* or the Simple Sword
InitEquip ==
  /\ items = ItemsOnce
  /\ daily_missions = MissionsOnce
  /\ max_summons = DefaultMaxSummons
  /\ inventory = [k \in Members \X ItemNames |->
                    IF k[1] = "u1" /\ default_items[k[2]].stat_type # "none" THEN 1 ELSE 0]
  /\ \E armed \in BOOLEAN :
       /\ equipped_items = IF armed THEN {EquippedRow(1, 1, "Simple Sword")} ELSE {}
       /\ equipped_items_id_seq = IF armed THEN 2 ELSE 1
  /\ cooldowns = [m \in Members |-> NoCooldownRow]
  /\ battles = {}
  /\ today = 0
  /\ now = 0
  /\ task = [t \in Tasks |-> Idle]
  /\ ops = 0
  /\ mission_credited = [k \in ProgressKeys |-> 0]
  /\ claim_returned = {}
  /\ users = [m \in Members |-> IF m = "u3" THEN NoUserRow ELSE NewUserRow]
  /\ summons = {SummonRow(1, "u1", "C"), SummonRow(2, "u2", "C")}
  /\ user_mission_progress = [k \in ProgressKeys |-> NoProgressRow]
  /\ summon_views = {}
  /\ challenge_views = {}
  /\ battle_views = {}
  /\ daily_granted = [k \in Members \X Days |-> 0]
  /\ last_reported = [m \in Members |-> 0]

NextEquip ==
  \E t \in Tasks :
    \/ \E input \in EquipInputs : EquipBegin(t, input[1], input[2], input[3])
    \/ EquipGetServant(t)
    \/ EquipGetItem(t)
    \/ EquipGetInventory(t)
    \/ \E existing \in 0..equipped_items_id_seq : EquipSelectExisting(t, existing)
    \/ EquipDelete(t)
    \/ EquipInsert(t)
    \/ UpdateMissionBegin(t)
    \/ UpdateMissionUpsert(t)
    \/ UpdateMissionCheck(t)
    \/ UpdateMissionComplete(t)

SpecEquip == InitEquip /\ [][NextEquip]_vars

\* --------------------------------------------- disjoint battles specification
\* the challenge u4 has posted with servant 4 against u3
ChallengeOfFourth ==
  [challenger_id |-> "u4", opponent_id |-> "u3", challenger_servant_id |-> 4,
   disabled |-> FALSE]

\* two challenges between disjoint pairs: u2 against u1, who has accepted, and
\* u4 against u3, who has not yet; u1, u2 and u4 are new members with fresh
\* rank C servants, u3 is rated 1200, owns a servant of level 10 and has won
\* two battles earlier today, its cooldown since expired (the battles rows of
\* earlier battles are left out; no handler reads them)
InitDisjoint ==
  /\ items = ItemsOnce
  /\ daily_missions = MissionsOnce
  /\ max_summons = DefaultMaxSummons
  /\ inventory = [k \in Members \X ItemNames |-> 0]
  /\ equipped_items = {}
  /\ equipped_items_id_seq = 1
  /\ cooldowns = [m \in Members |->
                    IF m = "u3" THEN [exists |-> TRUE, expires_at |-> 0] ELSE NoCooldownRow]
  /\ battles = {}
  /\ today = 0
  /\ now = 0
  /\ task = [t \in Tasks |-> Idle]
  /\ ops = 0
  /\ mission_credited = [k \in ProgressKeys |-> 0]
  /\ claim_returned = {}
  /\ LET veteran == ServantAt(3, "u3", 10, 0)
     IN /\ users = [m \in Members |->
                      IF m = "u3" THEN Owner(veteran, 20, 1200) ELSE NewUserRow]
        /\ summons = {SummonRow(1, "u1", "C"), SummonRow(2, "u2", "C"), veteran,
                      SummonRow(4, "u4", "C")}
  /\ user_mission_progress =
       [k \in ProgressKeys |->
          IF k = <<"u3", 1, 0>> THEN ProgressRow(2, 3) ELSE NoProgressRow]
  /\ summon_views = {}
  /\ challenge_views = {ChallengeTo("u1"), ChallengeOfFourth}
  /\ battle_views = {BattleSelectOf("u1", 1)}
  /\ daily_granted = [k \in Members \X Days |-> 0]
  /\ last_reported = [m \in Members |-> 0]

NextDisjoint ==
  \E t \in Tasks :
    \/ \E view \in challenge_views, clicker \in Members : AcceptButton(t, view, clicker)
    \/ BattleSelect(t)

SpecDisjoint == InitDisjoint /\ [][NextDisjoint]_vars

\* --------------------------------------------------- levelling specification
\* the levels and experience values of the winning servant, and the levels of
\* the losing one (the award is 50 + 5 * that level: 55, 100 and 550)
LevelInputs == {1, 2, 98, 99, 100}
ExperienceInputs(level) == {0, 100 * level - 55, 100 * level - 5}
LoserLevelInputs == {1, 10, 100}

\* the callback of u1's dropdown has completed battle 1 for u1, both members
\* rated 1000 before it, up to the call of add_experience
InitLevel ==
  /\ items = ItemsOnce
  /\ daily_missions = MissionsOnce
  /\ max_summons = DefaultMaxSummons
  /\ inventory = [k \in Members \X ItemNames |-> 0]
  /\ equipped_items = {}
  /\ equipped_items_id_seq = 1
  /\ cooldowns = [m \in Members |-> NoCooldownRow]
  /\ today = 0
  /\ now = 0
  /\ ops = 1
  /\ mission_credited = [k \in ProgressKeys |-> 0]
  /\ claim_returned = {}
  /\ user_mission_progress = [k \in ProgressKeys |-> NoProgressRow]
  /\ summon_views = {}
  /\ challenge_views = {ChallengeTo("u1")}
  /\ battle_views = {BattleSelectOf("u1", 1)}
  /\ daily_granted = [k \in Members \X Days |-> 0]
  /\ last_reported = [m \in Members |-> 0]
  /\ battles = {WonBattle(1, "u1", 0)}
  /\ \E level \in LevelInputs, loser_level \in LoserLevelInputs :
       \E experience \in ExperienceInputs(level) :
         LET s1 == ServantAt(1, "u1", level, experience)
             s2 == ServantAt(2, "u2", loser_level, 0)
             elo_change == calculate_elo_change(1000, 1000)
         IN /\ summons = {[s1 EXCEPT !.battles_won = @ + 1, !.total_battles = @ + 1],
                          [s2 EXCEPT !.total_battles = @ + 1]}
            /\ users = [m \in Members |->
                          IF m = "u1"
                          THEN [Owner(s1, 0, 1000 + elo_change) EXCEPT !.battle_wins = @ + 1]
                          ELSE IF m = "u2" THEN Owner(s2, 1, LoserRating(1000, elo_change))
                          ELSE NoUserRow]
            /\ task = [t \in Tasks |->
                         IF t = "t1"
                         THEN [Idle EXCEPT !.op = "battle_select", !.pc = "add_experience",
                                           !.user = "u2", !.opponent = "u1",
                                           !.servant_id = 2, !.opponent_servant_id = 1,
                                           !.winner_id = "u1", !.battle_id = 1,
                                           !.elo_change = elo_change,
                                           !.exp_gained = 50 + loser_level * 5]
                         ELSE Idle]

SpecLevel == InitLevel /\ [][NextComplete]_vars

\* ---------------------------------------------------- rating specification
\* the callback of u1's dropdown has read both members' ratings and calls
\* calculate_elo_change
InitElo ==
  /\ items = ItemsOnce
  /\ daily_missions = MissionsOnce
  /\ max_summons = DefaultMaxSummons
  /\ inventory = [k \in Members \X ItemNames |-> 0]
  /\ equipped_items = {}
  /\ equipped_items_id_seq = 1
  /\ cooldowns = [m \in Members |-> NoCooldownRow]
  /\ battles = {}
  /\ today = 0
  /\ now = 0
  /\ ops = 1
  /\ mission_credited = [k \in ProgressKeys |-> 0]
  /\ claim_returned = {}
  /\ daily_granted = [k \in Members \X Days |-> 0]
  /\ last_reported = [m \in Members |-> 0]
  /\ users = [m \in Members |-> IF m = "u3" THEN NoUserRow ELSE NewUserRow]
  /\ summons = {SummonRow(1, "u1", "C"), SummonRow(2, "u2", "C")}
  /\ user_mission_progress = [k \in ProgressKeys |-> NoProgressRow]
  /\ summon_views = {}
  /\ challenge_views = {ChallengeTo("u1")}
  /\ battle_views = {BattleSelectOf("u1", 1)}
  /\ \E winner_elo, loser_elo \in EloRatings :
       task = [t \in Tasks |->
                 IF t = "t1"
                 THEN [Idle EXCEPT !.op = "calculate_elo_change", !.pc = "call",
                                   !.user = "u2", !.opponent = "u1",
                                   !.servant_id = 2, !.opponent_servant_id = 1,
                                   !.winner_elo = winner_elo, !.loser_elo = loser_elo]
                 ELSE Idle]

NextElo == \E t \in Tasks : EloCall(t)

SpecElo == InitElo /\ [][NextElo]_vars

\* ------------------------------------------------ summon flow specification
\* u1 is registered and owns no servant; the community allows one servant (the
\* default); either nothing has happened yet, or a /summon paid with a ticket
\* has left its dropdown open
InitSummon ==
  /\ InitRest
  /\ \E open \in BOOLEAN, rank \in {"EX", "C"} :
       /\ users = [m \in Members |->
                     IF m = "u1"
                     THEN Registered(StartSq, IF open THEN StartTickets - 1 ELSE StartTickets)
                     ELSE NoUserRow]
       /\ summon_views = IF open THEN {[user |-> "u1", rank |-> rank]} ELSE {}
  /\ summons = {}
  /\ user_mission_progress = [k \in ProgressKeys |-> NoProgressRow]
  /\ challenge_views = {}
  /\ battle_views = {}
  /\ daily_granted = [k \in Members \X Days |-> 0]
  /\ last_reported = [m \in Members |-> 0]

\* /summon and the summoning dropdown, nothing else
NextSummon ==
  \E t \in Tasks :
    \/ SummonBegin(t, "u1")
    \/ SummonGetMax(t)
    \/ SummonGetSummons(t)
    \/ SummonGetCurrency(t)
    \/ \E roll \in RollValues : SummonPay(t, roll)
    \/ \E view \in summon_views, clicker \in {"u1", "u2"} : SelectBegin(t, view, clicker)
    \/ AddSummon(t)
    \/ UpdateMissionBegin(t)
    \/ UpdateMissionUpsert(t)
    \/ UpdateMissionCheck(t)
    \/ UpdateMissionComplete(t)

SpecSummon == InitSummon /\ [][NextSummon]_vars

\* ------------------------------------------------ declined challenge specification
\* u2 has challenged u1 and the challenge is on display; u1 may have pressed
\* Accept already, which has left the dropdown open
InitDecline ==
  /\ InitBattle
  /\ ~users["u3"].exists
  /\ AbroadRow \notin summons
  /\ challenge_views = {ChallengeTo("u1")}

\* the two buttons of the challenge and the dropdown
NextDecline ==
  \E t \in Tasks :
    \/ \E view \in challenge_views, clicker \in {"u1", "u2"} : AcceptButton(t, view, clicker)
    \/ \E view \in challenge_views, clicker \in {"u1", "u2"} : DeclineButton(t, view, clicker)
    \/ BattleSelect(t)

SpecDecline == InitDecline /\ [][NextDecline]_vars

\* ------------------------------------------------ damage specification
\* a level-1 servant of rank C meets a level-1 servant of rank EX, either
\* of them the challenger's; the callback of u1's dropdown has fetched both
\* stat blocks with get_servant_stats and calls simulate_battle(s1_stats, s2_stats)
InitDamage ==
  /\ items = ItemsOnce
  /\ daily_missions = MissionsOnce
  /\ max_summons = DefaultMaxSummons
  /\ inventory = [k \in Members \X ItemNames |-> 0]
  /\ equipped_items = {}
  /\ equipped_items_id_seq = 1
  /\ cooldowns = [m \in Members |-> NoCooldownRow]
  /\ battles = {}
  /\ today = 0
  /\ now = 0
  /\ ops = 1
  /\ mission_credited = [k \in ProgressKeys |-> 0]
  /\ claim_returned = {}
  /\ daily_granted = [k \in Members \X Days |-> 0]
  /\ last_reported = [m \in Members |-> 0]
  /\ users = [m \in Members |-> IF m \in {"u1", "u2"} THEN NewUserRow ELSE NoUserRow]
  /\ summons \in {{SummonRow(1, "u1", "EX"), SummonRow(2, "u2", "C")},
                   {SummonRow(1, "u1", "C"), SummonRow(2, "u2", "EX")}}
  /\ user_mission_progress = [k \in ProgressKeys |-> NoProgressRow]
  /\ summon_views = {}
  /\ challenge_views = {ChallengeTo("u1")}
  /\ battle_views = {BattleSelectOf("u1", 1)}
  /\ task = [t \in Tasks |->
               IF t = "t1"
               THEN [Idle EXCEPT !.op = "simulate_battle", !.pc = "begin",
                                 !.user = "u2", !.opponent = "u1",
                                 !.servant_id = 2, !.opponent_servant_id = 1,
                                 !.sim = [NoSim EXCEPT !.s1 = get_servant_stats(2),
                                                       !.s2 = get_servant_stats(1)]]
               ELSE Idle]

SpecDamage == InitDamage /\ [][NextSimulate]_vars

\* ------------------------------------------------ start-up specification
\* the bot starts on an empty database or on one that an earlier start has
\* initialised; nobody has registered
InitStartup ==
  /\ \/ items = {} /\ daily_missions = {}
     \/ items = ItemsOnce /\ daily_missions = MissionsOnce
  /\ max_summons = DefaultMaxSummons
  /\ users = [m \in Members |-> NoUserRow]
  /\ summons = {}
  /\ inventory = [k \in Members \X ItemNames |-> 0]
  /\ equipped_items = {}
  /\ equipped_items_id_seq = 1
  /\ user_mission_progress = [k \in ProgressKeys |-> NoProgressRow]
  /\ cooldowns = [m \in Members |-> NoCooldownRow]
  /\ battles = {}
  /\ today = 0
  /\ now = 0
  /\ summon_views = {}
  /\ challenge_views = {}
  /\ battle_views = {}
  /\ task = [t \in Tasks |-> Idle]
  /\ ops = 0
  /\ mission_credited = [k \in ProgressKeys |-> 0]
  /\ claim_returned = {}
  /\ daily_granted = [k \in Members \X Days |-> 0]
  /\ last_reported = [m \in Members |-> 0]

\* on_ready fires at every start and after every reconnect
NextStartup ==
  \E t \in Tasks :
    \/ InitDbBegin(t)
    \/ InitDbItem(t)
    \/ InitDbMission(t)

SpecStartup == InitStartup /\ [][NextStartup]_vars

\* ===================================================================== claims
\* the member has lost a recorded battle
LostBattle(m) ==
  \E b \in battles : /\ b.completed
                     /\ m \in {b.challenger_id, b.opponent_id}
                     /\ b.winner_id # m

\* task t takes a step
Steps(t) == task'[t] # task[t]

\* C1: in every reachable state both currency balances (Saint Quartz and
\* tickets) of every member are >= 0.
C1_BalancesNeverNegative ==
  \A m \in Members : users[m].saint_quartz >= 0 /\ users[m].summon_tickets >= 0

\* the handler of task t is a /summon or /buy of m that has read m's balance
HasReadBalance(t, m) ==
  /\ task[t].user = m
  /\ \/ task[t].op = "summon" /\ task[t].pc \in {"pay", "done"}
        /\ task[t].result \in {"none", "paid_ticket", "paid_sq"}
     \/ task[t].op = "buy" /\ task[t].pc \in {"pay", "add_item_to_inventory", "done"}
        /\ task[t].result \in {"none", "bought"}

\* C2: when two summon or buy requests of the same member interleave between
\* the balance read and the balance update, neither balance of that member
\* becomes negative.
C2_InterleavedSpendingNeverNegative ==
  \A m \in Members :
    (\E t1, t2 \in Tasks : t1 # t2 /\ HasReadBalance(t1, m) /\ HasReadBalance(t2, m))
      => (users[m].saint_quartz >= 0 /\ users[m].summon_tickets >= 0)

\* C3: a summon whose funds check finds 0 tickets and fewer than 30 SQ, and a
\* buy whose funds check finds less SQ than the item's price, end with the
\* insufficient-funds outcome and change no balance, no inventory row and no
\* servant row.
C3_InsufficientFundsRejected ==
  [][\A t \in Tasks :
       LET currency == get_user_currency(task[t].user)
           rejected == /\ task'[t].pc = "done"
                       /\ task'[t].result = "insufficient"
                       /\ UNCHANGED <<users, inventory, equipped_items, equipped_items_id_seq, summons>>
       IN /\ (At(t, "summon", "get_user_currency") /\ Steps(t)
                /\ currency.tickets = 0 /\ currency.sq < 30) => rejected
          /\ (At(t, "buy", "get_user_currency") /\ Steps(t)
                /\ default_items[task[t].item].price > currency.sq) => rejected]_vars

\* a summon and a buy have both been turned away for lack of funds
C3_Witness ==
  \E t1, t2 \in Tasks :
    /\ task[t1].op = "summon" /\ task[t1].result = "insufficient"
    /\ task[t1].cur_tk = 0 /\ task[t1].cur_sq < 30
    /\ task[t2].op = "buy" /\ task[t2].result = "insufficient"
    /\ task[t2].cur_sq < default_items[task[t2].item].price
    /\ users[task[t1].user].saint_quartz = task[t1].cur_sq
    /\ users[task[t1].user].summon_tickets = 0
    /\ summons = {}

\* C4: a summon of a registered member below the servant limit takes exactly 1
\* ticket and no SQ when the tickets it read are > 0; otherwise exactly 30 SQ
\* and no ticket when the SQ it read are >= 30; otherwise it is rejected.
C4_SummonCost ==
  [][\A t \in Tasks :
       LET m == task[t].user
           currency == get_user_currency(m)
       IN /\ (At(t, "summon", "get_user_currency") /\ Steps(t)) =>
               ((task'[t].pc = "done" /\ task'[t].result = "insufficient")
                  <=> (~(currency.tickets > 0) /\ ~(currency.sq >= 30)))
          /\ (At(t, "summon", "pay") /\ Steps(t)) =>
               IF task[t].cur_tk > 0
               THEN /\ users'[m].summon_tickets = users[m].summon_tickets - 1
                    /\ users'[m].saint_quartz = users[m].saint_quartz
               ELSE /\ task[t].cur_sq >= 30
                    /\ users'[m].saint_quartz = users[m].saint_quartz - 30
                    /\ users'[m].summon_tickets = users[m].summon_tickets]_vars

\* a summon was rejected at 0 SQ and 0 tickets; after one ticket was given a
\* summon reading 1 ticket succeeded and the ticket count is back at 0
C4_Witness ==
  \E t1, t2 \in Tasks :
    /\ ops = 3
    /\ task[t1].op = "summon" /\ task[t1].result = "insufficient"
    /\ task[t1].cur_tk = 0 /\ task[t1].cur_sq = 0
    /\ task[t2].op = "summon" /\ task[t2].result = "paid_ticket"
    /\ task[t2].cur_tk = 1 /\ task[t2].cur_sq = 0
    /\ task[t2].user = task[t1].user
    /\ users[task[t2].user].summon_tickets = 0
    /\ users[task[t2].user].saint_quartz = 0

\* C5: a daily claim that finds the member's last claim on today's date
\* returns no reward and leaves the member's row (balances, streaks,
\* last-claim date) as it was.
C5_SameDateClaimRejected ==
  [][\A t \in Tasks :
       (At(t, "daily", "read_last_claim") /\ Steps(t)
          /\ users[task[t].user].last_daily_claim = today)
         => /\ task'[t].pc = "done"
            /\ task'[t].result = "already_claimed"
            /\ task'[t].sq_reward = 0 /\ task'[t].ticket_reward = 0
            /\ users' = users]_vars

\* one claim succeeded and a later claim of the same date was turned away
C5_Witness ==
  \E t1, t2 \in Tasks :
    /\ task[t1].op = "daily" /\ task[t1].result = "claimed"
    /\ task[t2].op = "daily" /\ task[t2].result = "already_claimed"
    /\ task[t2].user = task[t1].user
    /\ task[t2].now_date = task[t1].now_date
    /\ task[t2].last_claim = task[t1].now_date
    /\ daily_granted[<<task[t1].user, task[t1].now_date>>] = 1

\* C6: when two daily claims of a member on one date interleave, the daily
\* reward of that date is granted to the member at most once.
C6_DailyGrantedAtMostOnce ==
  \A m \in Members, d \in Days : daily_granted[<<m, d>>] <= 1

C8_DailyReward ==
  [][\A t \in Tasks :
       LET m == task[t].user
           streak == task[t].streak
       IN (At(t, "daily", "daily_update") /\ Steps(t)) =>
            /\ users'[m].saint_quartz - users[m].saint_quartz
                 = 30 + 5 * (IF streak < 7 THEN streak ELSE 7)
            /\ users'[m].summon_tickets - users[m].summon_tickets
                 = (IF streak % 3 = 0 THEN 1 ELSE 0)]_vars

\* a claim reporting streak 9 was paid the capped 65 SQ and the bonus ticket
C8_Witness ==
  \E t \in Tasks :
    /\ task[t].op = "daily" /\ task[t].result = "claimed"
    /\ task[t].streak = 9
    /\ users[task[t].user].saint_quartz = StartSq + 65
    /\ users[task[t].user].summon_tickets = StartTickets + 1

\* C9: after a claim of a mission by a member on a day has returned its
\* reward, every later claim attempt of that member for that mission on that
\* day fails and changes no balance.
C9_MissionClaimedOnce ==
  [][\A t \in Tasks :
       (At(t, "claimmission", "claim_read") /\ Steps(t)
          /\ <<task[t].user, task[t].mission_id, today>> \in claim_returned)
         => /\ task'[t].pc = "done"
            /\ task'[t].result = "not_claimable"
            /\ users' = users]_vars

\* a repeat claim of a completed, already claimed mission was turned away
C9_Witness ==
  \E t \in Tasks :
    LET k == <<task[t].user, task[t].mission_id, task[t].now_date>> IN
      /\ task[t].op = "claimmission" /\ task[t].result = "not_claimable"
      /\ k \in claim_returned
      /\ user_mission_progress[k].completed
      /\ user_mission_progress[k].claimed
      /\ mission_credited[k] = 1

\* C10: when two claims of one completed mission by one member on one day
\* interleave, the mission's reward is credited to the member at most once.
C10_MissionCreditedAtMostOnce ==
  \A k \in ProgressKeys : mission_credited[k] <= 1

\* no handler stands between its progress upsert and its completion update of row k
Settled(k) ==
  \A t \in Tasks :
    ~(/\ task[t].pc \in {"mission_check", "mission_complete"}
      /\ task[t].mission_user = k[1]
      /\ task[t].mission_id = k[2])

\* C11: for every mission-progress row, progress never decreases, completed
\* is never cleared once set, and (once the handler that updates the row has
\* run through) completed holds exactly when progress >= the mission's
\* requirement and claimed implies completed.
C11_MissionRowInvariants ==
  [][\A k \in ProgressKeys :
       LET before == user_mission_progress[k]
           after == user_mission_progress'[k]
       IN /\ before.exists =>
               /\ after.exists
               /\ after.progress >= before.progress
               /\ before.completed => after.completed
          /\ (after.exists /\ Settled(k)') =>
               /\ after.completed <=> after.progress >= default_missions[k[2]].requirement
               /\ after.claimed => after.completed]_vars

\* C12: the cooldown sweep never changes the outcome of a cooldown check: it
\* removes only entries whose expiry is <= now, never one that still blocks,
\* so check_cooldown answers for every member as it did before the sweep.
C12_SweepKeepsOutcome ==
  [][\A t \in Tasks :
       (At(t, "cleanup_cooldowns", "clear_expired_cooldowns") /\ Steps(t)) =>
         \A m \in Members :
           /\ check_cooldown(m)' = check_cooldown(m)
           /\ cooldowns'[m] # cooldowns[m] =>
                /\ cooldowns[m].expires_at <= now
                /\ ~cooldowns'[m].exists]_vars

\* a sweep has removed the expired entry of one battle participant while
\* another member's entry still blocks
C12_Witness ==
  \E t \in Tasks, m1, m2 \in Members :
    /\ task[t].op = "cleanup_cooldowns" /\ task[t].result = "swept"
    /\ \E b \in battles : b.completed /\ m1 \in {b.challenger_id, b.opponent_id}
    /\ ~cooldowns[m1].exists
    /\ check_cooldown(m2)

\* the members taking part in battle b
Participants(b) == {b.challenger_id, b.opponent_id}

\* C13: after a battle resolves at time t both participants are on a "battle"
\* cooldown until t + 300, so neither of them takes part, as challenger or as
\* opponent, in another battle that resolves before t + 300.
C13_NoBattleDuringCooldown ==
  \A b1, b2 \in battles :
    (/\ b1.completed /\ b2.completed
     /\ b1.id # b2.id
     /\ Participants(b1) \cap Participants(b2) # {}
     /\ b1.completed_at <= b2.completed_at)
      => b2.completed_at >= b1.completed_at + 300

\* a task slot dispatches the ServantBattleSelect callback in this step
SelectDispatched(t) == Free(t) /\ Steps(t) /\ task'[t].op = "battle_select"

\* C14 as stated: the servant pick after Accept is turned away with the cooldown
\* message exactly when the challenger has an active "battle" cooldown.
C14_ChallengerCooldownChecked ==
  [][\A t \in Tasks :
       SelectDispatched(t) =>
         (task'[t].result = "cooldown" <=> check_cooldown(task'[t].user))]_vars

\* C14: the servant pick after Accept is turned away with the cooldown message
\* exactly when the accepting opponent, the member using the dropdown, has an
\* active "battle" cooldown; the challenger's cooldown is not looked at, and
\* pressing Accept itself checks no cooldown.
C14_OpponentCooldownChecked ==
  [][\A t \in Tasks :
       /\ SelectDispatched(t) =>
            /\ task'[t].result = "cooldown" <=> check_cooldown(task'[t].opponent)
            /\ task'[t].result = "cooldown" => (task'[t].pc = "done" /\ UNCHANGED dbVars)
            /\ task'[t].result # "cooldown" => task'[t].pc = "simulate_battle"
       /\ (Free(t) /\ Steps(t) /\ task'[t].op = "accept") =>
            task'[t].result \in {"not_for_you", "no_servants", "accepted"}]_vars

\* a servant pick went through to the battle while the challenger was on
\* cooldown, and another was turned away because the opponent was
C14_Witness ==
  \E t1, t2 \in Tasks :
    /\ task[t1].op = "battle_select" /\ task[t1].pc = "simulate_battle"
    /\ check_cooldown(task[t1].user) /\ ~check_cooldown(task[t1].opponent)
    /\ task[t2].op = "battle_select" /\ task[t2].result = "cooldown"
    /\ check_cooldown(task[t2].opponent)

\* C15 as stated: /battle posts a challenge only if challenger and opponent are
\* registered in the community and differ, the challenger's "battle" cooldown
\* check found none, and the nominated servant is a row of the challenger in
\* that community; a /battle that ends otherwise changes no table and no view.
C15_ChallengeValidated ==
  [][\A t \in Tasks :
       /\ (At(t, "battle", "send_challenge") /\ Steps(t)) =>
            /\ is_user_registered(task[t].user)
            /\ is_user_registered(task[t].opponent)
            /\ task[t].user # task[t].opponent
            /\ \E s \in summons : /\ s.id = task[t].servant_id
                                  /\ s.user_id = task[t].user
                                  /\ s.guild_id = guild_id
       /\ (At(t, "battle", "check_cooldown") /\ Steps(t) /\ check_cooldown(task[t].user)) =>
            task'[t].result = "cooldown"
       /\ (task'[t].op = "battle" /\ Steps(t) /\ task'[t].pc = "done"
             /\ task'[t].result # "challenged") =>
            UNCHANGED <<dbVars, uiVars>>]_vars

\* the task slots in which simulate_battle runs or has run
Simulating == {t \in Tasks : task[t].op = "simulate_battle"}
Simulated == {t \in Simulating : task[t].pc = "done"}

\* C16: the side that strikes on turn 1 is the side with strictly higher
\* speed, and the first argument when the speeds are equal.
C16_FirstStrikeBySpeed ==
  \A t \in Simulating :
    LET sim == task[t].sim
    IN sim.turn >= 1 =>
         /\ sim.s1.speed > sim.s2.speed => sim.first = 1
         /\ sim.s2.speed > sim.s1.speed => sim.first = 2
         /\ sim.s1.speed = sim.s2.speed => sim.first = 1

\* a battle of equally fast servants was opened by the first argument
C16_Witness ==
  \E t \in Simulated :
    /\ task[t].sim.s1.speed = task[t].sim.s2.speed
    /\ task[t].sim.turn >= 1 /\ task[t].sim.first = 1

\* C17: simulate_battle terminates whatever the random draws are: the turn
\* counter never passes 30, a turn is only played while both sides have health
\* above 0 and fewer than 30 turns were played, and the call returns.
C17_Terminates ==
  /\ [](\A t \in Simulating : task[t].sim.turn <= 30)
  /\ [][\A t \in Simulating :
          task'[t].sim.turn # task[t].sim.turn =>
            /\ task[t].sim.turn < 30
            /\ task[t].sim.s1_current_hp > 0
            /\ task[t].sim.s2_current_hp > 0
            /\ task'[t].sim.turn = task[t].sim.turn + 1]_vars
  /\ <>(Simulated = Simulating)

\* a battle ran into the turn limit with both servants standing
C17_Witness ==
  \E t \in Simulated :
    /\ task[t].sim.turn = 30
    /\ task[t].sim.s1_current_hp > 0 /\ task[t].sim.s2_current_hp > 0

\* C18: the winner is the side with strictly greater remaining health, the
\* second argument when both have the same; the loser is the other side.
C18_WinnerByHealth ==
  \A t \in Simulated :
    LET sim == task[t].sim
    IN /\ sim.winner \in {1, 2}
       /\ sim.s1_current_hp > sim.s2_current_hp => sim.winner = 1
       /\ sim.s2_current_hp > sim.s1_current_hp => sim.winner = 2
       /\ sim.s1_current_hp = sim.s2_current_hp => sim.winner = 2

\* a battle ended with equal remaining health and went to the second argument
C18_Witness ==
  \E t \in Simulated :
    /\ task[t].sim.s1_current_hp = task[t].sim.s2_current_hp
    /\ task[t].sim.turn >= 1
    /\ task[t].sim.winner = 2

\* a finished battle of equal starting health in which every hit had
\* multiplier 1.0 and there was no critical hit and no Noble Phantasm
PlainEqualHealth == {t \in Simulated : task[t].sim.plain /\ task[t].sim.s1.hp = task[t].sim.s2.hp}

Rated == {t \in Tasks : task[t].op = "calculate_elo_change" /\ task[t].pc = "done"}

\* C20 as stated: for all winner and loser ratings the delta is
\* max(round(32 * (1 - 1 / (1 + 10^((loser - winner) / 400)))), 5); it is at
\* least 5, it is 5 for winner 2000 against loser 1000 and 16 for 1000 against
\* 1000.
C20_EloDeltaRounded ==
  \A t \in Rated :
    LET p == Pow10(task[t].loser_elo - task[t].winner_elo)
        rounded == (2 * 32 * p + (10000 + p)) \div (2 * (10000 + p))
    IN /\ task[t].elo_change = Max(rounded, 5)
       /\ task[t].elo_change >= 5
       /\ (task[t].winner_elo = 2000 /\ task[t].loser_elo = 1000) => task[t].elo_change = 5
       /\ (task[t].winner_elo = 1000 /\ task[t].loser_elo = 1000) => task[t].elo_change = 16

\* the servant rows a step inserts
Summoned == {s \in summons' : s \notin summons}

\* C22: a servant created at rank EX, S, A, B, C gets base attack and defense
\* 200, 160, 130, 100, 70, base health 2000, 1600, 1300, 1000, 700 and base
\* speed 100, 80, 65, 50, 35, with level 1, experience 0 and no bonus; so each
\* base stat is strictly ordered EX > S > A > B > C.
C22_BaseStatsByRank ==
  [][\A s \in Summoned :
       LET expected ==
             CASE s.servant_rank = "EX" -> <<200, 2000, 100>>
               [] s.servant_rank = "S" -> <<160, 1600, 80>>
               [] s.servant_rank = "A" -> <<130, 1300, 65>>
               [] s.servant_rank = "B" -> <<100, 1000, 50>>
               [] s.servant_rank = "C" -> <<70, 700, 35>>
       IN /\ s.servant_rank \in Ranks
          /\ s.base_attack = expected[1] /\ s.base_defense = expected[1]
          /\ s.base_hp = expected[2] /\ s.base_speed = expected[3]
          /\ s.level = 1 /\ s.experience = 0
          /\ s.bonus_attack = 0 /\ s.bonus_defense = 0
          /\ s.bonus_hp = 0 /\ s.bonus_speed = 0]_vars

\* an A-rank servant has been created by the dropdown with 130 attack
C22_Witness ==
  \E s \in summons :
    /\ s.servant_rank = "A" /\ s.base_attack = 130 /\ s.base_speed = 65
    /\ \E t \in Tasks : task[t].op = "select" /\ task[t].rank = "A" /\ task[t].pc # "add_summon"

\* C21: completing a battle adds exactly the rating change of that battle to
\* the winner's rating and sets the loser's rating to the larger of (loser
\* rating - that change) and 0, so that no member's rating is ever negative.
C21_RatingApplied ==
  [][/\ \A t \in Tasks :
          /\ (At(t, "battle_select", "complete_winner") /\ Steps(t)) =>
               users'[task[t].winner_id].elo_rating =
                 users[task[t].winner_id].elo_rating + task[t].elo_change
          /\ (At(t, "battle_select", "complete_loser") /\ Steps(t)) =>
               users'[LoserOf(t)].elo_rating =
                 IF users[LoserOf(t)].elo_rating > task[t].elo_change
                 THEN users[LoserOf(t)].elo_rating - task[t].elo_change
                 ELSE 0
     /\ \A m \in Members : users[m].elo_rating >= 0 /\ users'[m].elo_rating >= 0]_vars

\* a battle between a member rated 1400 and one rated 3 has been completed for
\* the higher-rated one: the change of 5 took the winner to 1405 and the loser to 0
C21_Witness ==
  \E t \in Tasks :
    /\ task[t].op = "battle_select" /\ task[t].pc = "complete_winner_servant"
    /\ task[t].elo_change = 5
    /\ users[task[t].winner_id].elo_rating = 1405
    /\ users[LoserOf(t)].elo_rating = 0

\* the servant row with the given id, before and after a step
RowBefore(servant_id) == CHOOSE s \in summons : s.id = servant_id
RowAfter(servant_id) == CHOOSE s \in summons' : s.id = servant_id

\* C23: for the servant row a call of add_experience reads and the experience
\* it is given, the level the call arrives at is never below the level read,
\* the experience it arrives at is below 100 * that level unless that level is
\* 100, and these are the values the call stores.
C23_LevelNeverDecreases ==
  [][\A t \in Tasks :
       /\ (At(t, "battle_select", "add_experience") /\ Steps(t)) =>
            LET read == RowBefore(WinnerServantOf(t))
            IN /\ task'[t].current_level >= read.level
               /\ task'[t].current_level = read.level + task'[t].levels_gained
               /\ task'[t].new_exp >= 0
               /\ task'[t].new_exp < 100 * task'[t].current_level
                    \/ task'[t].current_level = 100
       /\ (At(t, "battle_select", "add_experience_update") /\ Steps(t)) =>
            LET before == RowBefore(WinnerServantOf(t))
                after == RowAfter(WinnerServantOf(t))
            IN /\ after.experience = task[t].new_exp
               /\ after.level = IF task[t].levels_gained > 0 THEN task[t].current_level
                                ELSE before.level]_vars

\* a call has stored the level it reached with the experience exactly at the
\* threshold, leaving experience 0
C23_Witness ==
  \E t \in Tasks :
    /\ task[t].op = "battle_select" /\ task[t].pc = "set_cooldown_challenger"
    /\ \E s \in summons :
         /\ s.id = WinnerServantOf(t)
         /\ s.level = task[t].current_level
         /\ task[t].levels_gained = 1
         /\ s.experience = 0

C30_LevelInRange ==
  \A s \in summons : s.level >= 1 /\ s.level <= 100 /\ s.experience >= 0

\* a servant at the cap has been awarded experience beyond 100 * 100 and has
\* stayed at level 100
C30_Witness ==
  \E t \in Tasks :
    /\ task[t].op = "battle_select" /\ task[t].pc = "set_cooldown_challenger"
    /\ task[t].levels_gained = 0
    /\ \E s \in summons :
         s.id = WinnerServantOf(t) /\ s.level = 100 /\ s.experience >= 100 * 100

\* C29: in simulate_battle the roles alternate strictly: the side that strikes
\* first strikes on every odd turn and the other side on every even turn,
\* whatever the speeds, critical hits and special-ability procs; the side
\* striking in a turn loses no health in it.
C29_StrictAlternation ==
  [][\A t \in Tasks :
       (At(t, "simulate_battle", "loop") /\ task'[t].sim.turn = task[t].sim.turn + 1) =>
         LET sim == task[t].sim
             first == IF sim.s1.speed >= sim.s2.speed THEN 1 ELSE 2
             striker == IF (sim.turn + 1) % 2 = 1 THEN first ELSE 3 - first
         IN /\ sim.attacker = striker
            /\ striker = 1 => task'[t].sim.s1_current_hp = sim.s1_current_hp
            /\ striker = 2 => task'[t].sim.s2_current_hp = sim.s2_current_hp]_vars

\* after three turns with a critical hit or a proc among them both sides have
\* been hit, the faster side first, and the slower side is to strike
C29_Witness ==
  \E t \in Tasks :
    /\ task[t].op = "simulate_battle" /\ task[t].pc = "loop"
    /\ task[t].sim.turn = 3
    /\ ~task[t].sim.plain
    /\ task[t].sim.s1.speed > task[t].sim.s2.speed
    /\ task[t].sim.s1_current_hp < task[t].sim.s1.hp
    /\ task[t].sim.s2_current_hp < task[t].sim.s2.hp
    /\ task[t].sim.attacker = 2

\* the equipped_items rows of a servant that hold the named item
Carried(servant_id, item_name) ==
  Cardinality({e \in equipped_items : e.servant_id = servant_id /\ e.item = item_name})

\* C25 as stated: equipping an item with stat type attack and value 30 raises
\* the resolved attack of the servant by exactly 30 over what it was when
\* equip_item was called.
C25_EquipAddsThirty ==
  [][\A t \in Tasks :
       (/\ At(t, "equip", "equip_insert") /\ Steps(t)
        /\ default_items[task[t].item].stat_type = "attack"
        /\ default_items[task[t].item].stat_value = 30) =>
         get_servant_stats(task[t].servant_id)'.attack = task[t].attack_before + 30]_vars

\* C25: the resolved stats of a servant are base + bonus when it has no
\* equipped item, and in general base + bonus + the stat values of its equipped
\* items of the matching stat type (attack: Gae Bolg Replica 30, Simple Sword
\* 10; defense: Leather Armor 10); the insertion of an item with stat type
\* attack and value 30 raises the resolved attack by exactly 30, and an equip
\* that found an item in the slot removes it first, which lowers the resolved
\* stat of that item's type by its value.
C25_ResolvedStats ==
  [][/\ \A s \in summons :
          LET stats == get_servant_stats(s.id)
          IN /\ stats.attack = s.base_attack + s.bonus_attack
                                 + 30 * Carried(s.id, "Gae Bolg Replica")
                                 + 10 * Carried(s.id, "Simple Sword")
             /\ stats.defense = s.base_defense + s.bonus_defense
                                  + 10 * Carried(s.id, "Leather Armor")
             /\ stats.hp = s.base_hp + s.bonus_hp
             /\ stats.speed = s.base_speed + s.bonus_speed
             /\ (\A e \in equipped_items : e.servant_id # s.id) =>
                  /\ stats.attack = s.base_attack + s.bonus_attack
                  /\ stats.defense = s.base_defense + s.bonus_defense
     /\ \A t \in Tasks :
          LET before == get_servant_stats(task[t].servant_id)
              after == get_servant_stats(task[t].servant_id)'
          IN /\ (/\ At(t, "equip", "equip_insert") /\ Steps(t)
                 /\ default_items[task[t].item].stat_type = "attack"
                 /\ default_items[task[t].item].stat_value = 30) =>
                  after.attack = before.attack + 30
             /\ (At(t, "equip", "equip_delete") /\ Steps(t)) =>
                  \A e \in equipped_items :
                    e.id = task[t].existing =>
                      /\ default_items[e.item].stat_type = "attack" =>
                           after.attack = before.attack - default_items[e.item].stat_value
                      /\ default_items[e.item].stat_type = "defense" =>
                           after.defense = before.defense - default_items[e.item].stat_value]_vars

\* the Gae Bolg Replica has replaced the Simple Sword of a rank C servant that
\* also wears the Leather Armor: the resolved attack went from 80 to 100
C25_Witness ==
  \E t \in Tasks :
    /\ task[t].op = "equip" /\ task[t].pc = "update_mission_progress"
    /\ task[t].item = "Gae Bolg Replica"
    /\ task[t].existing # 0
    /\ task[t].attack_before = 80
    /\ get_servant_stats(task[t].servant_id).attack = 100
    /\ get_servant_stats(task[t].servant_id).defense = 80

\* C26: in every reachable state each (servant, item category) slot holds at
\* most one equipped item, also when two equip requests for the same servant
\* and category interleave; an equip into an occupied slot leaves only the
\* new item in that slot.
C26_OneItemPerSlot ==
  [][/\ \A e1, e2 \in equipped_items' :
          (e1.servant_id = e2.servant_id /\ e1.slot_type = e2.slot_type) => e1 = e2
     /\ \A t \in Tasks :
          (At(t, "equip", "equip_insert") /\ Steps(t)) =>
            {e.item : e \in SlotRows(task[t].servant_id,
                                     default_items[task[t].item].item_type)'}
              = {task[t].item}]_vars

\* all the experience a servant row accounts for: the thresholds 100 * k of the
\* levels k it has left behind plus the experience it holds
TotalExperience(s) == 50 * s.level * (s.level - 1) + s.experience

\* C27: every battle record is completed exactly once, by the callback that
\* created it, and the effects of the completion are applied exactly once per
\* record: the rating change and the win and loss counters of the two members,
\* the battle counters of the two servants, and the experience award, which
\* adds exp_gained to the experience the winning servant accounts for.
C27_CompletedExactlyOnce ==
  [][\A t \in Tasks :
       /\ (At(t, "battle_select", "complete_battle") /\ Steps(t)) =>
            /\ \E b \in battles : b.id = task[t].battle_id /\ ~b.completed
            /\ \A b \in battles' :
                 IF b.id = task[t].battle_id
                 THEN b.completed /\ b.winner_id = task[t].winner_id
                 ELSE b \in battles
       /\ (At(t, "battle_select", "complete_winner") /\ Steps(t)) =>
            users'[task[t].winner_id].battle_wins = users[task[t].winner_id].battle_wins + 1
       /\ (At(t, "battle_select", "complete_loser") /\ Steps(t)) =>
            users'[LoserOf(t)].battle_losses = users[LoserOf(t)].battle_losses + 1
       /\ (At(t, "battle_select", "complete_winner_servant") /\ Steps(t)) =>
            /\ RowAfter(WinnerServantOf(t)).battles_won =
                 RowBefore(WinnerServantOf(t)).battles_won + 1
            /\ RowAfter(WinnerServantOf(t)).total_battles =
                 RowBefore(WinnerServantOf(t)).total_battles + 1
       /\ (At(t, "battle_select", "complete_loser_servant") /\ Steps(t)) =>
            RowAfter(LoserServantOf(t)).total_battles =
              RowBefore(LoserServantOf(t)).total_battles + 1
       /\ (At(t, "battle_select", "add_experience_update") /\ Steps(t)) =>
            TotalExperience(RowAfter(WinnerServantOf(t))) =
              TotalExperience(RowBefore(WinnerServantOf(t))) + task[t].exp_gained]_vars

\* the battles of the challenge a member has posted, and whether exactly one
\* has been fought and its callback has returned
BattlesOf(challenger_id) == {b \in battles : b.challenger_id = challenger_id}
Settled1(challenger_id) ==
  /\ Cardinality(BattlesOf(challenger_id)) = 1
  /\ \A t \in Tasks :
       (task[t].op = "battle_select" /\ task[t].user = challenger_id) =>
         task[t].pc = "done"

\* the rows of a member and of a servant
ServantOf(m) == CHOOSE s \in summons : s.user_id = m

\* C28: two battles between disjoint pairs do not interfere: however the
\* accept and dropdown handlers of the two challenges interleave, once the one
\* battle of a pair is over the records of its two members and two servants
\* are what that battle alone makes of them (rating change 16 between the two
\* new members; 24 or 7 between the new member and the one rated 1200; 55 or
\* 100 experience), whatever the other pair's battle has done or is doing.
C28_DisjointBattlesIndependent ==
  /\ Settled1("u2") =>
       \E w, l \in {"u1", "u2"} :
         /\ w # l
         /\ \A b \in BattlesOf("u2") : b.completed /\ b.winner_id = w
         /\ users[w] = [NewUserRow EXCEPT !.elo_rating = 1016, !.battle_wins = 1]
         /\ users[l] = [NewUserRow EXCEPT !.elo_rating = 984, !.battle_losses = 1]
         /\ ServantOf(w) = [SummonRow(ServantOf(w).id, w, "C") EXCEPT
                              !.experience = 55, !.battles_won = 1, !.total_battles = 1]
         /\ ServantOf(l) = [SummonRow(ServantOf(l).id, l, "C") EXCEPT !.total_battles = 1]
  /\ Settled1("u4") =>
       \A b \in BattlesOf("u4") :
         /\ b.completed
         /\ b.winner_id = "u4" =>
              /\ users["u4"] = [NewUserRow EXCEPT !.elo_rating = 1024, !.battle_wins = 1]
              /\ users["u3"].elo_rating = 1176 /\ users["u3"].battle_losses = 21
              /\ users["u3"].battle_wins = 45
              /\ ServantOf("u4") = [SummonRow(4, "u4", "C") EXCEPT
                                      !.level = 2, !.experience = 0,
                                      !.base_attack = 72, !.base_defense = 72,
                                      !.base_hp = 720, !.base_speed = 37,
                                      !.battles_won = 1, !.total_battles = 1]
              /\ ServantOf("u3") = [ServantAt(3, "u3", 10, 0) EXCEPT !.total_battles = 46]
         /\ b.winner_id = "u3" =>
              /\ users["u4"] = [NewUserRow EXCEPT !.elo_rating = 993, !.battle_losses = 1]
              /\ users["u3"].elo_rating = 1207 /\ users["u3"].battle_losses = 20
              /\ users["u3"].battle_wins = 46
              /\ ServantOf("u4") = [SummonRow(4, "u4", "C") EXCEPT !.total_battles = 1]
              /\ ServantOf("u3") = [ServantAt(3, "u3", 10, 0) EXCEPT
                                      !.experience = 55, !.battles_won = 46,
                                      !.total_battles = 46]

\* the battle of u2 and u1 was created after the battle of u4 and u3 and is
\* over, while the completion of the other is still on its way
C28_Witness ==
  /\ Settled1("u2")
  /\ \E b \in BattlesOf("u2") : b.id = 2
  /\ \E t \in Tasks :
       /\ task[t].op = "battle_select" /\ task[t].user = "u4"
       /\ task[t].pc = "add_experience_update"

\* C31: completing a battle sets the loser's current login streak to 0 and
\* leaves the loser's longest streak unchanged, and in every reachable state
\* every member's longest streak is >= that member's current streak.
C31_LoserStreakReset ==
  [][/\ \A t \in Tasks :
          (At(t, "battle_select", "complete_loser") /\ Steps(t)) =>
            /\ users'[LoserOf(t)].current_streak = 0
            /\ users'[LoserOf(t)].longest_streak = users[LoserOf(t)].longest_streak
     /\ \A m \in Members :
          /\ users[m].longest_streak >= users[m].current_streak
          /\ users'[m].longest_streak >= users'[m].current_streak]_vars

\* u1 had claimed on the day before with a streak of 8, has claimed again
\* (streak 9, the new watermark) and has then lost a battle: the current
\* streak is 0 and the longest is 9
C31_Witness ==
  \E t \in Tasks :
    /\ task[t].op = "battle_select" /\ task[t].pc = "complete_winner_servant"
    /\ LoserOf(t) = "u1"
    /\ users["u1"].current_streak = 0
    /\ users["u1"].longest_streak = 9
    /\ users["u1"].last_daily_claim = today

\* C32: after any sequence of summon operations of a member (paying, then
\* choosing from the summoning dropdown, possibly more than once or from
\* several open dropdowns), the number of servants the member owns in the
\* community never exceeds the community's max_summons setting.
C32_WithinMaxSummons ==
  \A m \in Members : Cardinality(get_user_summons(m)) <= get_max_summons

\* the summon payments a member has made: where /summon is the only handler
\* that changes a balance, what is missing from the registration grant, one
\* ticket or 30 Saint Quartz a payment
SummonPayments(m) ==
  IF users[m].exists
  THEN (StartTickets - users[m].summon_tickets)
         + (StartSq - users[m].saint_quartz) \div SummonCostSq
  ELSE 0

\* C33: for every member, the number of servants created through the summon
\* flow never exceeds the number of summon payments (1 ticket or 30 Saint
\* Quartz) the member has made.
C33_OneServantPerPayment ==
  \A m \in Members : Cardinality(get_user_summons(m)) <= SummonPayments(m)

Declined == \E view \in challenge_views : view.opponent_id = "u1" /\ view.disabled

\* C35: once the challenged member has declined a challenge, that challenge
\* never results in a battle, even if the member had pressed Accept before and
\* a dropdown of that challenge is still open: a servant chosen in the
\* dropdown of a declined challenge is turned down (a callback that is let
\* through goes on to create_battle without a further check).
C35_DeclinedNeverFought ==
  [][\A t \in Tasks :
       (/\ Declined
        /\ SelectDispatched(t)
        /\ task'[t].user = "u2" /\ task'[t].opponent = "u1")
         => task'[t].pc = "done"]_vars

\* C36: each issued challenge results in at most one battle record and one
\* application of the battle rewards, for any number of Accept presses and
\* servants chosen while the challenge view and its dropdowns remain active:
\* as long as the dropdown u1 got for the challenge of u2 has not been open
\* for its timeout, at most one battle of u2 against u1 is on record.
C36_OneBattlePerChallenge ==
  now < select_timeout => Cardinality(BattlesOf("u2")) <= 1

\* update_mission_progress: the rows of SELECT id, requirement FROM daily_missions
\* WHERE mission_type = $1 (fetchrow returns one of them)
MissionsOfType(mission_type) == {r \in daily_missions : r.mission_type = mission_type}

\* C37: init_db is idempotent for the catalogs: however often it runs, there
\* is never more than one mission definition of a mission type nor more than
\* one item of a name, and once a run has finished there is exactly one of
\* each, so that a mission type resolves to one mission definition.
C37_CatalogsIdempotent ==
  /\ \A name \in ItemNames : Cardinality({i \in items : i.name = name}) <= 1
  /\ \A mission_type \in MissionTypes : Cardinality(MissionsOfType(mission_type)) <= 1
  /\ (\E t \in Tasks : task[t].op = "init_db" /\ task[t].pc = "done") =>
       /\ \A name \in ItemNames : Cardinality({i \in items : i.name = name}) = 1
       /\ \A mission_type \in MissionTypes : Cardinality(MissionsOfType(mission_type)) = 1

\* C38: every normal attack of simulate_battle lowers the current health of
\* the defender by at least 1, whatever the attack and defense of the two
\* sides and whatever the multiplier between 0.8 and 1.2 (in percent).
C38_AttackDealsDamage ==
  [][\A t \in Tasks :
       (/\ At(t, "simulate_battle", "loop")
        /\ task'[t].sim.turn = task[t].sim.turn + 1)
         => IF task[t].sim.attacker = 1
            THEN task'[t].sim.s2_current_hp <= task[t].sim.s2_current_hp - 1
            ELSE task'[t].sim.s1_current_hp <= task[t].sim.s1_current_hp - 1]_vars


====
